---- MODULE Spec2Model ----
(***************************************************************************)
(* Model of the Ozone Manager bootstrap orchestration                      *)
(* (src/ozone_om_bootstrap.py, class OzoneOMBootstrap).                    *)
(*                                                                         *)
(* A run is a record: the fields of the Python object (its attributes),    *)
(* the position of run_bootstrap (pc), the state of the target host        *)
(* (service process, database paths, temporary directory) and the log of   *)
(* the commands the run has issued.  Every phase method is an operator     *)
(* method(s, r) from the run record s and the responses r of the           *)
(* management API, the remote hosts and the operator to the run record     *)
(* after the call; run_bootstrap sequences them.                           *)
(***************************************************************************)
EXTENDS Integers, Sequences, FiniteSets, TLC

VARIABLES run, twin

vars == <<run, twin>>

---------------------------------------------------------------------------
(* Hosts, roles and the values that stand for Python's None.               *)

None == "None"

CMHost == "cm"

OMHosts == {"om1", "om2", "om3"}

\* --follower-host: the replica to bootstrap
FollowerHost == "om2"

NoRole == [name |-> None, host |-> None]

\* the OZONE_MANAGER roles the management API lists, each with the hostname
\* its hostRef resolves to
AllRoles ==
  << [name |-> "OM-1", host |-> "om1"],
     [name |-> "OM-2", host |-> "om2"],
     [name |-> "OM-3", host |-> "om3"] >>

RolesWithoutTarget ==
  << [name |-> "OM-1", host |-> "om1"],
     [name |-> "OM-3", host |-> "om3"] >>

RoleLists == {AllRoles, RolesWithoutTarget}

---------------------------------------------------------------------------
(* Output of "ozone admin om roles": a sequence of lines.  A line names a  *)
(* role and a host in one of three shapes:                                 *)
(*   fmt 1   ROLE: host (id)                                               *)
(*   fmt 2   id : ROLE (host)                                              *)
(*   fmt 3   id host ROLE                                                  *)

\* longest roles output considered
MaxLines == 2

Formats == {1, 2, 3}

RoleLines == [fmt : Formats, role : {"LEADER", "FOLLOWER"}, host : OMHosts]

RECURSIVE SeqsUpTo(_, _)
SeqsUpTo(S, n) ==
  IF n = 0 THEN {<<>>}
  ELSE LET shorter == SeqsUpTo(S, n - 1)
       IN  shorter \cup {Append(q, x) : q \in {p \in shorter : Len(p) = n - 1}, x \in S}

RolesOutputs == SeqsUpTo(RoleLines, MaxLines)

\* re.search / re.findall of r'ROLE:\s*([^\s]+)': the fmt-1 lines of that role
MatchColon(out, role) ==
  SelectSeq(out, LAMBDA l : l.role = role /\ l.fmt = 1)

\* r'(\w+)\s*:\s*ROLE\s*\(([^)]+)\)': the fmt-2 lines of that role
MatchParen(out, role) ==
  SelectSeq(out, LAMBDA l : l.role = role /\ l.fmt = 2)

\* leader parsing of get_om_roles_from_cli and _get_om_roles_from_cli: the
\* first LEADER: match, else the first id : LEADER (host) match, else no leader
ParseLeader(out) ==
  IF MatchColon(out, "LEADER") # <<>> THEN MatchColon(out, "LEADER")[1].host
  ELSE IF MatchParen(out, "LEADER") # <<>> THEN MatchParen(out, "LEADER")[1].host
  ELSE None

\* follower parsing of get_om_roles_from_cli: every FOLLOWER: match, and only
\* when there is none every id : FOLLOWER (host) match
ParseFollowers(out) ==
  LET m == IF MatchColon(out, "FOLLOWER") # <<>> THEN MatchColon(out, "FOLLOWER")
           ELSE MatchParen(out, "FOLLOWER")
  IN  {m[i].host : i \in 1..Len(m)}

\* what the role-state parsing makes of a roles output
parse_roles(out) == [leader |-> ParseLeader(out), followers |-> ParseFollowers(out)]

\* the parse results of all roles outputs
ParsedRoles == {parse_roles(out) : out \in RolesOutputs}

\* Output of "ozone admin om getserviceroles" as the node-id extraction reads
\* it: for each host the shape of its FOLLOWER line, "absent" when the output
\* has no line naming the host as FOLLOWER, "noid" when the line carries no id
NodeLineShapes == {"absent", "noid", "f1", "f2", "f3"}

\* the three node-id patterns of verify_leader_health and
\* test_leadership_transfer, tried in order on the host's FOLLOWER line
NodeIdOf(shape, host) ==
  IF shape \in {"f2", "f1", "f3"} THEN host ELSE None

---------------------------------------------------------------------------
(* The run record.                                                         *)

\* the stop-polling window of stop_follower, in seconds
StopMaxWait == 120

StopInterval == 5

\* the start-polling window of start_follower, in seconds
StartMaxWait == 180

StartInterval == 10

\* what the operator types at the confirmation prompt: a sequence of chunks,
\* " " a run of whitespace
TypedInputs ==
  { <<"Continue">>, <<" ", "Continue">>, <<"Continue", " ">>,
    <<"continue">>, <<"yes">>, <<>> }

\* str.strip(): leading and trailing whitespace removed
RECURSIVE strip(_)
strip(w) ==
  IF w = <<>> THEN w
  ELSE IF Head(w) = " " THEN strip(Tail(w))
  ELSE IF w[Len(w)] = " " THEN strip(SubSeq(w, 1, Len(w) - 1))
  ELSE w

\* f"/backup/om_bootstrap_{self.epoch_time}"
om_bootstrap_dir(epoch) == [under |-> "/backup/om_bootstrap_", epoch |-> epoch]

\* OzoneOMBootstrap.__init__ with the command-line arguments, and the target
\* host as the run finds it
InitRun(dry, sshuser, sudouser, keytab, handoff, running) ==
  [ \* arguments
    dry_run |-> dry,
    ssh_user |-> sshuser,
    sudo_user |-> sudouser,
    keytab |-> keytab,
    enable_leadership_transfer_test |-> handoff,
    \* fields of the object
    ozone_service |-> None,
    service_id |-> None,
    om_roles |-> <<>>,
    leader_host |-> None,
    follower_role |-> NoRole,
    om_db_dir |-> None,
    ratis_dir |-> None,
    om_protocol |-> None,
    om_port |-> None,
    ozone_security_enabled |-> FALSE,
    ozone_http_kerberos_enabled |-> FALSE,
    temp_dir |-> None,
    om_role_was_stopped |-> FALSE,
    leader_ratis_log_before |-> None,
    follower_ratis_log_before |-> None,
    \* position of run_bootstrap
    pc |-> "discover",
    ret |-> "True",
    elapsed_time |-> 0,
    result |-> "none",
    failed_at |-> None,
    raised |-> FALSE,
    cleanups |-> 0,
    \* the target host
    proc |-> running,
    proc_before |-> running,
    db |-> "orig",
    db_aside |-> FALSE,
    db_backup |-> FALSE,
    extract |-> "none",
    tmp |-> FALSE,
    artifact |-> "none",
    ratis_logs |-> "orig",
    stopping |-> FALSE,
    starting |-> FALSE,
    \* what the run has seen and done
    followers |-> {},
    roles_parsed |-> FALSE,
    ssh_failed |-> FALSE,
    sudo_refused |-> FALSE,
    typed_other |-> FALSE,
    typed_refused |-> FALSE,
    stop_confirmed |-> FALSE,
    artifact_seen |-> "none",
    tar_test_failed |-> FALSE,
    leader_unanswered |-> FALSE,
    stop_window_expired |-> FALSE,
    start_window_expired |-> FALSE,
    target_unlisted_after |-> FALSE,
    handoff_unconfirmed |-> FALSE,
    refetched_leader |-> "unfetched",
    cli_unprefixed |-> FALSE,
    before_hosts |-> [leader |-> None, follower |-> None],
    compared |-> {},
    epoch_time |-> 1700000000,
    backup_dir |-> om_bootstrap_dir(1700000000),
    resolved_dirs |-> <<None, None>>,
    phases |-> <<>>,
    trace |-> <<>>,
    quirks |-> 0 ]

\* the name the command c of the run s creates, as the text before the
\* identifier and the identifier in it: the template of mktemp, extract_dir,
\* backup_db, the name the live database is moved to, the ratisLogs directory
artifact_fresh(s, c) ==
  CASE c = "mktemp" -> [under |-> "/tmp/om_bootstrap_", epoch |-> s.epoch_time]
    [] c = "mkdir_extract" -> [under |-> "{om_db_dir}.tmp_", epoch |-> s.epoch_time]
    [] c = "cp_db" -> [under |-> "{backup_dir}/om.db.backup.", epoch |-> s.epoch_time]
    [] c = "mv_db_aside" -> [under |-> "{om_db_dir}/om.db.backup.", epoch |-> s.epoch_time]
    [] c = "mkdir_ratis_backup" ->
         [under |-> "{backup_dir}/ratisLogs_", epoch |-> s.epoch_time + 1]
    [] OTHER -> [under |-> "", epoch |-> 0]

artifact(s, c) ==
  CASE c = "mktemp" -> [under |-> "/tmp/om_bootstrap_", epoch |-> s.epoch_time]
    [] c = "mkdir_extract" -> [under |-> "{om_db_dir}.tmp_", epoch |-> s.epoch_time]
    [] c = "cp_db" -> [under |-> "{backup_dir}/om.db.backup.", epoch |-> s.epoch_time]
    [] c = "mv_db_aside" -> [under |-> "{om_db_dir}/om.db.backup.", epoch |-> s.epoch_time]
    [] c = "mkdir_ratis_backup" ->
         [under |-> "{backup_dir}/ratisLogs_", epoch |-> s.epoch_time]
    [] OTHER -> [under |-> "", epoch |-> 0]

\* a command handed to the remote executor or to the management API, logged
\* with the state of the target's service process when it is issued
Issue(s, c, a) ==
  [s EXCEPT !.trace = Append(@, [cmd |-> c, arg |-> a, proc |-> s.proc,
                                 name |-> artifact(s, c)])]

Return(s, v) == [s EXCEPT !.ret = v]

\* responses r and n agree on the answers named in fields.  A response set
\* holds one response for each way a phase can go: the answers to commands
\* that are not issued once an earlier command has failed are those of the
\* reference response.
Same(r, n, fields) == \A f \in fields : r[f] = n[f]

\* the hostnames of self.om_roles, in order (get_host_by_id of each hostRef)
RoleHosts(roles) == [i \in 1..Len(roles) |-> roles[i].host]

\* RoleOn without the comparison of the hostname: the first role
RoleOn_first(roles, h) == IF roles = <<>> THEN NoRole ELSE roles[1]

\* the first role of self.om_roles whose host is h, NoRole when there is none
RoleOn(roles, h) ==
  LET m == SelectSeq(roles, LAMBDA x : x.host = h)
  IN  IF m = <<>> THEN NoRole ELSE m[1]

---------------------------------------------------------------------------
(* Phases 1.0 - 1.2                                                        *)

DiscoverResp ==
  [ outcome : {"cluster_error", "no_cluster", "services_error", "no_service",
               "no_roles", "ok"},
    roles : RoleLists,
    service_id : {None, "svc"} ]

discover_cluster_info(s, r) ==
  IF r.outcome \in {"cluster_error", "no_cluster"} THEN Return(s, "False")
  ELSE IF r.outcome = "services_error" THEN Return(s, "Exc")
  ELSE IF r.outcome \in {"no_service", "no_roles"} THEN Return(s, "False")
  ELSE Return([s EXCEPT !.ozone_service = "OZONE-1",
                        !.om_roles = r.roles,
                        !.service_id = r.service_id], "True")

SshResp == [down : SUBSET ({CMHost} \cup OMHosts), lookup_error : BOOLEAN]

validate_ssh_connectivity(s, r) ==
  LET hosts == <<CMHost>> \o RoleHosts(s.om_roles)
  IN  IF r.lookup_error /\ s.om_roles # <<>> THEN Return(s, "Exc")
      ELSE IF \E i \in 1..Len(hosts) : hosts[i] \in r.down
           THEN Return([s EXCEPT !.ssh_failed = TRUE], "False")
      ELSE Return(s, "True")

SudoResp ==
  [ direct : BOOLEAN, input : {"", "hdfs", "interrupt"}, with_user : BOOLEAN ]

validate_sudo_access(s, r) ==
  IF s.ssh_user = "root" THEN Return(s, "True")
  ELSE IF r.direct THEN Return(s, "True")
  ELSE LET s1 == s
           refuse(x) == Return([x EXCEPT !.sudo_refused = TRUE], "False")
           s2 == IF s1.sudo_user = None /\ r.input = "hdfs"
                 THEN [s1 EXCEPT !.sudo_user = r.input] ELSE s1
       IN  IF s1.sudo_user = None /\ r.input \in {"", "interrupt"} THEN refuse(s1)
           ELSE IF ~r.with_user THEN refuse(s2)
           ELSE Return(s2, "True")

PromptResp == [event : {"typed", "interrupt", "eof"}, text : TypedInputs]

\* check_snapshots_and_prompt that takes whatever is typed for the confirmation
check_snapshots_and_prompt_any_text(s, r) ==
  IF r.event = "interrupt"
  THEN Return([s EXCEPT !.typed_other = TRUE, !.typed_refused = TRUE], "False")
  ELSE IF r.event = "eof"
  THEN Return([s EXCEPT !.typed_other = TRUE, !.typed_refused = TRUE], "Exc")
  ELSE Return([s EXCEPT !.typed_other = (r.text # <<"Continue">>),
                        !.typed_refused = (strip(r.text) # <<"Continue">>)], "True")

check_snapshots_and_prompt(s, r) ==
  IF r.event = "interrupt"
  THEN Return([s EXCEPT !.typed_other = TRUE, !.typed_refused = TRUE], "False")
  ELSE IF r.event = "eof"
  THEN Return([s EXCEPT !.typed_other = TRUE, !.typed_refused = TRUE], "Exc")
  ELSE LET user_input == strip(r.text)
           s1 == [s EXCEPT !.typed_other = (r.text # <<"Continue">>),
                           !.typed_refused = (user_input # <<"Continue">>)]
       IN  IF user_input = <<"Continue">> THEN Return(s1, "True")
           ELSE Return(s1, "False")

---------------------------------------------------------------------------
(* Phases 1.3 - 2.1                                                        *)

RolesResp ==
  [ getconf : BOOLEAN, rc_ok : BOOLEAN, parsed : ParsedRoles, lookup_error : BOOLEAN ]

\* the getconf or the roles command is handed to the executor on every path
get_om_roles_from_cli(s0, r) ==
  LET s == [s0 EXCEPT !.cli_unprefixed = @ \/ ~s0.ozone_security_enabled]
  IN
  IF s.service_id = None /\ ~r.getconf THEN Return(s, "False")
  ELSE
    LET s1 == [s EXCEPT !.service_id = "svc"]
    IN  IF ~r.rc_ok THEN Return(s1, "False")
        ELSE
          LET leader == r.parsed.leader
              follower_matches == r.parsed.followers
              s2 == [s1 EXCEPT !.leader_host = IF leader # None THEN leader ELSE @,
                               !.followers = follower_matches,
                               !.roles_parsed = TRUE]
          IN  IF follower_matches = {} THEN Return(s2, "True")
              ELSE IF FollowerHost \notin follower_matches THEN Return(s2, "False")
              ELSE IF r.lookup_error /\ s2.om_roles # <<>> THEN Return(s2, "Exc")
              ELSE Return([s2 EXCEPT !.follower_role = RoleOn(s2.om_roles, FollowerHost)],
                          "True")

ConfigResp ==
  [ error : BOOLEAN, db_dir : {None, "/om/db"}, ratis_dir : {None, "/om/ratis"},
    http_kerberos : BOOLEAN ]

\* get_om_configuration without the check that the target's role is known
get_om_configuration_any_role(s, r) ==
  IF r.error THEN Return(s, "False")
  ELSE
    LET s1 == [s EXCEPT !.om_db_dir = r.db_dir,
                        !.ratis_dir = r.ratis_dir,
                        !.ozone_http_kerberos_enabled = r.http_kerberos,
                        !.om_protocol = "http",
                        !.om_port = "9874"]
    IN  IF s1.om_db_dir = None THEN Return(s1, "False") ELSE Return(s1, "True")

get_om_configuration(s, r) ==
  IF r.error THEN Return(s, "False")
  ELSE IF s.follower_role = NoRole THEN Return(s, "False")
  ELSE
    LET s1 == [s EXCEPT !.om_db_dir = r.db_dir,
                        !.ratis_dir = r.ratis_dir,
                        !.resolved_dirs = <<r.db_dir, r.ratis_dir>>,
                        !.ozone_http_kerberos_enabled = r.http_kerberos,
                        !.om_protocol = "http",
                        !.om_port = "9874"]
    IN  IF s1.om_db_dir = None THEN Return(s1, "False") ELSE Return(s1, "True")

SecurityResp ==
  [ error : BOOLEAN, security_enabled : BOOLEAN, keytab_found : BOOLEAN,
    kinit : BOOLEAN ]

check_security_configuration(s, r) ==
  IF s.ozone_service = None THEN Return(s, "False")
  ELSE IF r.error THEN Return(s, "False")
  ELSE
    LET s1 == [s EXCEPT !.ozone_security_enabled = r.security_enabled]
    IN  IF s1.ozone_security_enabled /\ ~s1.keytab THEN Return(s1, "False")
        ELSE IF ~s1.ozone_http_kerberos_enabled THEN Return(s1, "True")
        ELSE IF ~s1.keytab THEN Return(s1, "False")
        ELSE IF ~r.keytab_found THEN Return(s1, "False")
        ELSE IF ~s1.dry_run /\ ~r.kinit THEN Return(s1, "False")
        ELSE Return(s1, "True")

HealthNominal ==
  [ healthy |-> OMHosts, shape |-> "f2", transfer_ok |-> OMHosts,
    lookup_error |-> FALSE ]

HealthResp ==
  { r \in [ healthy : SUBSET OMHosts, shape : NodeLineShapes \cup {"error"},
            transfer_ok : SUBSET OMHosts, lookup_error : BOOLEAN ] :
      /\ r.lookup_error => Same(r, HealthNominal, {"shape", "transfer_ok"})
      /\ r.shape \in {"error", "absent", "noid"} =>
           Same(r, HealthNominal, {"transfer_ok"}) }

\* the candidate loop of verify_leader_health from role i on: probe each
\* other host, and hand leadership to the first healthy one whose node id
\* is found and whose transfer command succeeds
RECURSIVE switch_leader(_, _, _)
switch_leader(s, r, i) ==
  IF i > Len(s.om_roles) THEN s
  ELSE
    LET candidate_host == s.om_roles[i].host
    IN  IF candidate_host = s.leader_host \/ candidate_host \notin r.healthy
        THEN switch_leader(s, r, i + 1)
        ELSE IF r.shape = "error" \/ NodeIdOf(r.shape, candidate_host) = None
        THEN switch_leader(s, r, i + 1)
        ELSE
          LET s1 == Issue(s, "transfer", candidate_host)
          IN  IF candidate_host \in r.transfer_ok
              THEN [s1 EXCEPT !.leader_host = candidate_host]
              ELSE switch_leader(s1, r, i + 1)

verify_leader_health(s, r) ==
  IF s.leader_host = None THEN Return(s, "False")
  ELSE IF s.service_id = None THEN Return(s, "False")
  ELSE IF s.leader_host \in r.healthy THEN Return(s, "True")
  ELSE IF r.lookup_error /\ s.om_roles # <<>>
  THEN Return([s EXCEPT !.leader_unanswered = TRUE], "Exc")
  ELSE
    \* `return True` whether or not a candidate has taken over
    LET s1 == switch_leader(s, r, 1)
    IN  Return([s1 EXCEPT !.leader_unanswered = (s1.leader_host \notin r.healthy)],
               "True")

\* names of consensus-log files
LogNames == {"log_1", "log_2"}

LogResp == [found : BOOLEAN, name : LogNames, ls : BOOLEAN]

LogsNominal ==
  [ leader_found |-> TRUE, leader_name |-> "log_1", leader_ls |-> TRUE,
    follower_found |-> TRUE, follower_name |-> "log_1", follower_ls |-> TRUE ]

LogsResp ==
  { r \in [ leader_found : BOOLEAN, leader_name : LogNames, leader_ls : BOOLEAN,
            follower_found : BOOLEAN, follower_name : LogNames,
            follower_ls : BOOLEAN ] :
      /\ ~r.leader_found => Same(r, LogsNominal, {"leader_ls", "leader_name"})
      /\ ~r.leader_ls => Same(r, LogsNominal, {"leader_name"})
      /\ ~r.follower_found => Same(r, LogsNominal, {"follower_ls", "follower_name"})
      /\ ~r.follower_ls => Same(r, LogsNominal, {"follower_name"}) }

\* before_hosts keeps the host each of the two recorded names was listed on,
\* compared the pairs of hosts whose names the "after" stage has compared
list_last_ratis_log(s, stage, host, r) ==
  IF s.ratis_dir = None THEN Return(s, "False")
  ELSE IF ~r.found THEN Return(s, "False")
  ELSE IF ~r.ls THEN Return(s, "False")
  ELSE IF stage = "before"
  THEN IF host = s.leader_host
       THEN Return([s EXCEPT !.leader_ratis_log_before = r.name,
                             !.before_hosts.leader = host], "True")
       ELSE Return([s EXCEPT !.follower_ratis_log_before = r.name,
                             !.before_hosts.follower = host], "True")
  ELSE
    LET before_log == IF host = s.leader_host THEN s.leader_ratis_log_before
                      ELSE s.follower_ratis_log_before
        of_host == IF host = s.leader_host THEN s.before_hosts.leader
                   ELSE s.before_hosts.follower
    IN  IF before_log # None
        THEN Return([s EXCEPT !.compared = @ \cup {<<host, of_host>>}], "True")
        ELSE Return(s, "True")

\* steps 2.1 and 7.1 of run_bootstrap: the leader's newest log, then the
\* target's unless it is the leader; a failure only warns
list_ratis_logs(s, stage, r) ==
  LET of_leader == [found |-> r.leader_found, name |-> r.leader_name, ls |-> r.leader_ls]
      of_follower ==
        [found |-> r.follower_found, name |-> r.follower_name, ls |-> r.follower_ls]
      s1 == list_last_ratis_log(s, stage, s.leader_host, of_leader)
  IN  IF s.leader_host = FollowerHost THEN Return(s1, "True")
      ELSE Return(list_last_ratis_log(s1, stage, FollowerHost, of_follower), "True")

---------------------------------------------------------------------------
(* Phases 3.0 - 5.1: stop the target, fetch and install the checkpoint     *)

\* pgrep through the remote executor: it ran and looked at the process
\* table, or ssh failed, or the executor's timeout expired
ProbeOutcomes == {"ran", "error", "timeout"}

\* return code of the pgrep probe when the process is running or not
pgrep(running, outcome) ==
  IF outcome = "timeout" THEN 0 - 1
  ELSE IF outcome = "error" THEN 255
  ELSE IF running THEN 0 ELSE 1

\* the probes a polling loop can make
StopProbes == StopMaxWait \div StopInterval

StartProbes == StartMaxWait \div StartInterval

\* how many probes of a window of n find the process unchanged: none, one,
\* all but the last, or all of them
Waits(n) == {0, 1, n - 1, n}

\* The service process and the probes during a polling loop: the first
\* `waits` probes run and find the process as it was; before the next probe
\* the process follows the management command if `moves`, and that probe
\* ends as `probe`; the probes after it run, the process staying as it is.
StopNominal ==
  [ lookup_error |-> FALSE, cm_ok |-> TRUE, waits |-> 0, moves |-> TRUE,
    probe |-> "ran" ]

StopResp ==
  { r \in [ lookup_error : BOOLEAN, cm_ok : BOOLEAN, waits : Waits(StopProbes),
            moves : BOOLEAN, probe : ProbeOutcomes ] :
      /\ r.lookup_error => Same(r, StopNominal, {"cm_ok", "waits", "moves", "probe"})
      /\ ~r.cm_ok => Same(r, StopNominal, {"waits", "moves", "probe"})
      /\ r.waits = StopProbes => Same(r, StopNominal, {"moves", "probe"}) }

\* stop_follower up to the polling loop
stop_follower_command(s, r) ==
  IF r.lookup_error /\ s.om_roles # <<>> THEN Return(s, "Exc")
  ELSE
    LET role == RoleOn(s.om_roles, FollowerHost)
        s1 == [s EXCEPT !.follower_role = role]
    IN  IF role = NoRole THEN Return(s, "False")
        ELSE IF s.dry_run THEN Return(s1, "True")
        ELSE
          LET s2 == Issue(s1, "cm_stop", role.name)
          IN  IF ~r.cm_ok THEN Return(s2, "False")
              ELSE Return([s2 EXCEPT !.stopping = TRUE, !.elapsed_time = 0], "Poll")

\* the process and the probe at the iteration of a polling loop that has
\* made `done` probes
PollAt(r, done) ==
  [ moves |-> (done = r.waits /\ r.moves),
    probe |-> IF done = r.waits THEN r.probe ELSE "ran" ]

\* stop_follower_poll without `elapsed_time += wait_interval`
stop_follower_poll_unbounded(s, r) ==
  LET s1 == [s EXCEPT !.proc = @ /\ ~(s.stopping /\ r.moves)]
      check_result == pgrep(s1.proc, r.probe)
  IN  IF check_result # 0
      THEN Return([s1 EXCEPT !.om_role_was_stopped = TRUE, !.stop_confirmed = TRUE,
                             !.elapsed_time = 0], "True")
      ELSE Return(s1, "Poll")

\* stop_follower_poll that goes on when the window has expired ("Proceeding
\* anyway, assuming process will stop soon")
stop_follower_poll_soft(s, r) ==
  LET s1 == [s EXCEPT !.proc = @ /\ ~(s.stopping /\ r.moves)]
      check_result == pgrep(s1.proc, r.probe)
  IN  IF check_result # 0
      THEN Return([s1 EXCEPT !.om_role_was_stopped = TRUE, !.stop_confirmed = TRUE,
                             !.elapsed_time = 0], "True")
      ELSE
        LET s2 == [s1 EXCEPT !.elapsed_time = @ + StopInterval]
        IN  IF s2.elapsed_time < StopMaxWait THEN Return(s2, "Poll")
            ELSE Return([s2 EXCEPT !.om_role_was_stopped = FALSE,
                                   !.stop_window_expired = TRUE,
                                   !.elapsed_time = 0], "True")

\* one iteration of the polling loop of stop_follower
stop_follower_poll(s, r) ==
  LET s1 == [s EXCEPT !.proc = @ /\ ~(s.stopping /\ r.moves)]
      check_result == pgrep(s1.proc, r.probe)
  IN  IF check_result # 0
      THEN Return([s1 EXCEPT !.om_role_was_stopped = TRUE, !.stop_confirmed = TRUE,
                             !.elapsed_time = 0], "True")
      ELSE
        LET s2 == [s1 EXCEPT !.elapsed_time = @ + StopInterval]
        IN  IF s2.elapsed_time < StopMaxWait THEN Return(s2, "Poll")
            ELSE Return([s2 EXCEPT !.om_role_was_stopped = FALSE,
                                   !.stop_window_expired = TRUE,
                                   !.elapsed_time = 0], "False")

\* the polling loop of stop_follower
RECURSIVE stop_follower_loop(_, _)
stop_follower_loop(s, r) ==
  LET n == stop_follower_poll(s, PollAt(r, s.elapsed_time \div StopInterval))
  IN  IF n.ret = "Poll" THEN stop_follower_loop(n, r) ELSE n

stop_follower(s, r) ==
  LET s1 == stop_follower_command(s, r)
  IN  IF s1.ret = "Poll" THEN stop_follower_loop(s1, r) ELSE s1

EndpointResp == [rc_ok : BOOLEAN]

test_checkpoint_endpoint(s, r) ==
  IF s.leader_host = None \/ s.om_protocol = None \/ s.om_port = None
  THEN Return(s, "False")
  ELSE IF s.ozone_http_kerberos_enabled /\ ~s.keytab THEN Return(s, "False")
  ELSE IF ~r.rc_ok THEN Return(s, "False")
  ELSE Return(s, "True")

\* what the checkpoint endpoint sends: a tar archive, a tar archive holding
\* the text of an error, or an error page that is no archive
Artifacts == {"tar", "tar_with_exception", "error_page"}

HasErrorText(a) == a \in {"tar_with_exception", "error_page"}

IsTar(a) == a \in {"tar", "tar_with_exception"}

DownloadNominal ==
  [ mktemp |-> TRUE, curl |-> TRUE, ls |-> TRUE, artifact |-> "tar",
    grep_ran |-> TRUE, tar_ran |-> TRUE ]

DownloadResp ==
  { r \in [ mktemp : BOOLEAN, curl : BOOLEAN, ls : BOOLEAN, artifact : Artifacts,
            grep_ran : BOOLEAN, tar_ran : BOOLEAN ] :
      /\ ~r.mktemp =>
           Same(r, DownloadNominal, {"curl", "ls", "artifact", "grep_ran", "tar_ran"})
      /\ ~r.curl => Same(r, DownloadNominal, {"ls", "artifact", "grep_ran", "tar_ran"})
      /\ ~r.ls => Same(r, DownloadNominal, {"artifact", "grep_ran", "tar_ran"}) }

\* the download with a result of the tar test that is not looked at
fetch_checkpoint_untested(s, r) ==
  LET s3 == Issue(s, "curl", FollowerHost)
  IN  IF ~r.curl THEN Return(s3, "False")
      ELSE
        LET s4 == [s3 EXCEPT !.artifact = r.artifact]
            s5 == [s4 EXCEPT !.artifact_seen =
                     IF r.grep_ran /\ HasErrorText(s4.artifact)
                     THEN "error_text" ELSE "clean"]
            tar_test_ok == r.tar_ran /\ IsTar(s5.artifact)
        IN  IF ~r.ls THEN Return(s4, "False")
            ELSE Return([s5 EXCEPT !.tar_test_failed = ~tar_test_ok], "True")

\* download_checkpoint from the curl command on: the download, the listing
\* of the file, the search for error text and the tar test
fetch_checkpoint(s, r) ==
  LET s3 == Issue(s, "curl", FollowerHost)
  IN  IF ~r.curl THEN Return(s3, "False")
      ELSE
        LET s4 == [s3 EXCEPT !.artifact = r.artifact]
            \* grep -i 'error\|exception\|failed': only a warning
            s5 == [s4 EXCEPT !.artifact_seen =
                     IF r.grep_ran /\ HasErrorText(s4.artifact)
                     THEN "error_text" ELSE "clean"]
            tar_test_ok == r.tar_ran /\ IsTar(s5.artifact)
        IN  IF ~r.ls THEN Return(s4, "False")
            ELSE IF ~tar_test_ok
            THEN Return([s5 EXCEPT !.tar_test_failed = TRUE], "False")
            ELSE Return(s5, "True")

\* download_checkpoint with the dry-run return ahead of the allocation of the
\* temporary directory
download_checkpoint_dry_first(s, r) ==
  IF s.leader_host = None THEN Return(s, "False")
  ELSE IF s.dry_run THEN Return(s, "True")
  ELSE
    LET s1 == Issue(s, "mktemp", FollowerHost)
    IN  IF ~r.mktemp THEN Return(s1, "False")
        ELSE
          LET s2 == [s1 EXCEPT !.temp_dir = "/tmp/om_bootstrap", !.tmp = TRUE]
          IN  IF s2.ozone_http_kerberos_enabled /\ ~s2.keytab THEN Return(s2, "False")
              ELSE fetch_checkpoint(s2, r)

download_checkpoint(s, r) ==
  IF s.leader_host = None THEN Return(s, "False")
  ELSE
    LET s1 == Issue(s, "mktemp", FollowerHost)
    IN  IF ~r.mktemp THEN Return(s1, "False")
        ELSE
          LET s2 == [s1 EXCEPT !.temp_dir = "/tmp/om_bootstrap", !.tmp = TRUE]
          IN  IF s2.ozone_http_kerberos_enabled /\ ~s2.keytab THEN Return(s2, "False")
              ELSE IF s2.dry_run THEN Return(s2, "True")
              ELSE fetch_checkpoint(s2, r)

ExtractResp == [mkdir : BOOLEAN, tar : {"ok", "fail", "partial"}]

extract_checkpoint(s, r) ==
  IF s.om_db_dir = None \/ s.temp_dir = None THEN Return(s, "False")
  ELSE
    LET s1 == Issue(s, "mkdir_extract", FollowerHost)
    IN  IF ~r.mkdir THEN Return(s1, "False")
        ELSE
          LET s2 == [s1 EXCEPT !.extract = "empty"]
          IN  IF s2.dry_run THEN Return(s2, "True")
              ELSE
                LET s3 == Issue(s2, "tar_x", FollowerHost)
                IN  IF r.tar = "ok" THEN Return([s3 EXCEPT !.extract = "ckpt"], "True")
                    ELSE IF r.tar = "partial"
                    THEN Return([s3 EXCEPT !.extract = "partial"], "False")
                    ELSE Return(s3, "False")

InstallNominal ==
  [mkdir |-> TRUE, cp |-> TRUE, mv_aside |-> TRUE, mv_new |-> TRUE, chown |-> TRUE]

InstallResp ==
  { r \in [ mkdir : BOOLEAN, cp : BOOLEAN, mv_aside : BOOLEAN, mv_new : BOOLEAN,
            chown : BOOLEAN ] :
      /\ ~r.mkdir => Same(r, InstallNominal, {"cp", "mv_aside", "mv_new", "chown"})
      /\ ~r.cp => Same(r, InstallNominal, {"mv_aside", "mv_new", "chown"})
      /\ ~r.mv_aside => Same(r, InstallNominal, {"mv_new", "chown"})
      /\ ~r.mv_new => Same(r, InstallNominal, {"chown"}) }

\* backup_and_replace_database whose backup copy only warns when it fails
backup_and_replace_database_unchecked(s, r) ==
  IF s.om_db_dir = None THEN Return(s, "False")
  ELSE
    LET s1 == Issue(s, "mkdir_backup", FollowerHost)
    IN  IF ~r.mkdir THEN Return(s1, "False")
        ELSE IF s1.dry_run THEN Return(s1, "True")
        ELSE
          LET s2 == Issue(s1, "cp_db", FollowerHost)
              s3 == Issue([s2 EXCEPT !.db_backup = r.cp], "mv_db_aside", FollowerHost)
          IN  IF ~r.mv_aside THEN Return(s3, "False")
              ELSE
                LET s4 == Issue([s3 EXCEPT !.db = "absent", !.db_aside = TRUE],
                                "mv_new_db", FollowerHost)
                IN  IF ~r.mv_new THEN Return(s4, "False")
                    ELSE Return(Issue([s4 EXCEPT !.db = s4.extract,
                                                 !.extract = "none"],
                                      "chown_db", FollowerHost), "True")

backup_and_replace_database(s, r) ==
  IF s.om_db_dir = None THEN Return(s, "False")
  ELSE
    LET s1 == Issue(s, "mkdir_backup", FollowerHost)
    IN  IF ~r.mkdir THEN Return(s1, "False")
        ELSE IF s1.dry_run THEN Return(s1, "True")
        ELSE
          LET s2 == Issue(s1, "cp_db", FollowerHost)
          IN  IF ~r.cp THEN Return(s2, "False")
              ELSE
                LET s3 == Issue([s2 EXCEPT !.db_backup = TRUE], "mv_db_aside", FollowerHost)
                IN  IF ~r.mv_aside THEN Return(s3, "False")
                    ELSE
                      LET s4 == Issue([s3 EXCEPT !.db = "absent", !.db_aside = TRUE],
                                      "mv_new_db", FollowerHost)
                      IN  IF ~r.mv_new THEN Return(s4, "False")
                          ELSE Return(Issue([s4 EXCEPT !.db = s4.extract,
                                                       !.extract = "none"],
                                            "chown_db", FollowerHost), "True")

RatisResp == [found : BOOLEAN, mkdir : BOOLEAN, cp : BOOLEAN, mv : BOOLEAN]

\* backup_ratis_logs that fails without a consensus-log directory
backup_ratis_logs_required(s, r) ==
  IF s.ratis_dir = None THEN Return(s, "False")
  ELSE IF ~r.found THEN Return(s, "True")
  ELSE
    LET s1 == Issue(s, "mkdir_ratis_backup", FollowerHost)
    IN  IF ~r.mkdir THEN Return(s1, "False")
        ELSE IF s1.dry_run THEN Return(s1, "True")
        ELSE
          LET s2 == Issue(Issue(s1, "cp_ratis", FollowerHost), "mv_ratis", FollowerHost)
          IN  Return([s2 EXCEPT !.ratis_logs = IF r.mv THEN "moved" ELSE @], "True")

backup_ratis_logs(s, r) ==
  IF s.ratis_dir = None THEN Return(s, "True")
  ELSE IF ~r.found THEN Return(s, "True")
  ELSE
    LET s1 == Issue(s, "mkdir_ratis_backup", FollowerHost)
    IN  IF ~r.mkdir THEN Return(s1, "False")
        ELSE IF s1.dry_run THEN Return(s1, "True")
        ELSE
          LET s2 == Issue(Issue(s1, "cp_ratis", FollowerHost), "mv_ratis", FollowerHost)
          IN  Return([s2 EXCEPT !.ratis_logs = IF r.mv THEN "moved" ELSE @], "True")

---------------------------------------------------------------------------
(* Phases 6.0 - 8.0 and cleanup                                            *)

StartNominal == [cm_ok |-> TRUE, waits |-> 0, moves |-> TRUE, probe |-> "ran"]

StartResp ==
  { r \in [ cm_ok : BOOLEAN, waits : Waits(StartProbes), moves : BOOLEAN,
            probe : ProbeOutcomes ] :
      /\ ~r.cm_ok => Same(r, StartNominal, {"waits", "moves", "probe"})
      /\ r.waits = StartProbes => Same(r, StartNominal, {"moves", "probe"}) }

\* start_follower up to the polling loop
start_follower_command(s, r) ==
  IF s.follower_role = NoRole THEN Return(s, "False")
  ELSE IF s.dry_run THEN Return(s, "True")
  ELSE
    LET s1 == Issue(s, "cm_start", s.follower_role.name)
    IN  IF ~r.cm_ok THEN Return(s1, "False")
        ELSE Return([s1 EXCEPT !.starting = TRUE, !.stopping = FALSE,
                               !.elapsed_time = 0], "Poll")

\* start_follower_poll that leaves om_role_was_stopped as it is
start_follower_poll_keep(s, r) ==
  LET s1 == [s EXCEPT !.proc = @ \/ (s.starting /\ r.moves)]
      check_result == pgrep(s1.proc, r.probe)
  IN  IF check_result = 0
      THEN Return([s1 EXCEPT !.elapsed_time = 0], "True")
      ELSE
        LET s2 == [s1 EXCEPT !.elapsed_time = @ + StartInterval]
        IN  IF s2.elapsed_time < StartMaxWait THEN Return(s2, "Poll")
            ELSE Return([s2 EXCEPT !.start_window_expired = TRUE,
                                   !.elapsed_time = 0], "False")

\* start_follower_poll that only warns when the window has expired
start_follower_poll_soft(s, r) ==
  LET s1 == [s EXCEPT !.proc = @ \/ (s.starting /\ r.moves)]
      check_result == pgrep(s1.proc, r.probe)
  IN  IF check_result = 0
      THEN Return([s1 EXCEPT !.om_role_was_stopped = FALSE, !.elapsed_time = 0], "True")
      ELSE
        LET s2 == [s1 EXCEPT !.elapsed_time = @ + StartInterval]
        IN  IF s2.elapsed_time < StartMaxWait THEN Return(s2, "Poll")
            ELSE Return([s2 EXCEPT !.start_window_expired = TRUE,
                                   !.elapsed_time = 0], "True")

\* one iteration of the polling loop of start_follower
start_follower_poll(s, r) ==
  LET s1 == [s EXCEPT !.proc = @ \/ (s.starting /\ r.moves)]
      check_result == pgrep(s1.proc, r.probe)
  IN  IF check_result = 0
      THEN Return([s1 EXCEPT !.om_role_was_stopped = FALSE, !.elapsed_time = 0], "True")
      ELSE
        LET s2 == [s1 EXCEPT !.elapsed_time = @ + StartInterval]
        IN  IF s2.elapsed_time < StartMaxWait THEN Return(s2, "Poll")
            ELSE Return([s2 EXCEPT !.start_window_expired = TRUE,
                                   !.elapsed_time = 0], "False")

\* the polling loop of start_follower
RECURSIVE start_follower_loop(_, _)
start_follower_loop(s, r) ==
  LET n == start_follower_poll(s, PollAt(r, s.elapsed_time \div StartInterval))
  IN  IF n.ret = "Poll" THEN start_follower_loop(n, r) ELSE n

start_follower(s, r) ==
  LET s1 == start_follower_command(s, r)
  IN  IF s1.ret = "Poll" THEN start_follower_loop(s1, r) ELSE s1

\* the leaders the parsing can report
ParsedLeaders == {p.leader : p \in ParsedRoles}

\* the roles output of the re-fetch after the restart as parsed: its leader,
\* and of its followers the target if it is among them
RefetchNominal == [rc_ok |-> TRUE, leader |-> "om1", followers |-> {FollowerHost}]

RefetchResp ==
  { r \in [rc_ok : BOOLEAN, leader : ParsedLeaders, followers : SUBSET {FollowerHost}] :
      /\ [leader |-> r.leader, followers |-> r.followers] \in ParsedRoles
      /\ ~r.rc_ok => Same(r, RefetchNominal, {"leader", "followers"}) }

\* _get_om_roles_from_cli: the re-fetch of the leader after the restart
get_om_roles_refetch(s, r) ==
  IF ~r.rc_ok THEN Return(s, "False")
  ELSE Return([s EXCEPT !.leader_host = IF r.leader # None THEN r.leader ELSE @,
                        !.refetched_leader = r.leader],
              "True")

\* verify_om_status: the re-fetch alone decides; the followers of the roles
\* output are not parsed
verify_om_status(s, r) ==
  IF get_om_roles_refetch(s, r).ret # "True"
  THEN Return([s EXCEPT !.target_unlisted_after = TRUE], "False")
  ELSE Return([get_om_roles_refetch(s, r) EXCEPT
                 !.target_unlisted_after = (FollowerHost \notin r.followers)], "True")

HandoffNominal ==
  [ node_rc |-> TRUE, shape |-> "f2", transfer |-> TRUE, rc_ok |-> TRUE,
    leader |-> FollowerHost ]

HandoffResp ==
  { r \in [ node_rc : BOOLEAN, shape : NodeLineShapes, transfer : BOOLEAN,
            rc_ok : BOOLEAN, leader : ParsedLeaders ] :
      /\ ~r.node_rc => Same(r, HandoffNominal, {"shape", "transfer", "rc_ok", "leader"})
      /\ r.shape \in {"absent", "noid"} =>
           Same(r, HandoffNominal, {"transfer", "rc_ok", "leader"})
      /\ ~r.transfer => Same(r, HandoffNominal, {"rc_ok", "leader"})
      /\ ~r.rc_ok => Same(r, HandoffNominal, {"leader"}) }

test_leadership_transfer(s, r) ==
  IF ~r.node_rc THEN Return(s, "False")
  ELSE IF NodeIdOf(r.shape, FollowerHost) = None THEN Return(s, "False")
  ELSE
    LET s1 == Issue(s, "transfer", FollowerHost)
    IN  IF ~r.transfer THEN Return(s1, "False")
        ELSE
          \* the re-fetch and the comparison of the leader only choose the
          \* message that is logged
          LET s2 == get_om_roles_refetch(s1, r)
          IN  Return([s2 EXCEPT !.handoff_unconfirmed =
                        (s2.ret # "True" \/ s2.leader_host # FollowerHost)], "True")

CleanupResp == [rm : BOOLEAN]

\* cleanup that forgets the temporary directory once it has removed it
cleanup_forget(s, r) ==
  IF s.temp_dir # None
  THEN LET s1 == Issue(s, "rm_tmp", FollowerHost)
       IN  [s1 EXCEPT !.tmp = IF r.rm THEN FALSE ELSE @, !.cleanups = @ + 1,
                      !.temp_dir = IF r.rm THEN None ELSE @]
  ELSE [s EXCEPT !.cleanups = @ + 1]

\* cleanup that also removes the backup directory of a run that succeeded
cleanup_purge(s, r) ==
  LET c == IF s.temp_dir # None
           THEN LET s1 == Issue(s, "rm_tmp", FollowerHost)
                IN  [s1 EXCEPT !.tmp = IF r.rm THEN FALSE ELSE @, !.cleanups = @ + 1]
           ELSE [s EXCEPT !.cleanups = @ + 1]
  IN  IF c.result = "success"
      THEN [Issue(c, "rm_backup", FollowerHost) EXCEPT !.db_backup = FALSE]
      ELSE c

\* cleanup whose removal is `rm -r` run with check=True: a removal that fails,
\* as that of a directory already gone does, raises
cleanup_strict(s, r) ==
  IF s.temp_dir # None
  THEN LET s1 == Issue(s, "rm_tmp", FollowerHost)
       IN  IF s.tmp /\ r.rm THEN [s1 EXCEPT !.tmp = FALSE, !.cleanups = @ + 1]
           ELSE [s1 EXCEPT !.cleanups = @ + 1, !.raised = TRUE, !.result = "failure"]
  ELSE [s EXCEPT !.cleanups = @ + 1]

\* cleanup that leaves the temporary directory
cleanup_keep(s, r) == [s EXCEPT !.cleanups = @ + 1]

cleanup(s, r) ==
  IF s.temp_dir # None
  THEN LET s1 == Issue(s, "rm_tmp", FollowerHost)
       IN  [s1 EXCEPT !.tmp = IF r.rm THEN FALSE ELSE @, !.cleanups = @ + 1]
  ELSE [s EXCEPT !.cleanups = @ + 1]

---------------------------------------------------------------------------
(* run_bootstrap                                                           *)

\* `return False` and `except Exception` of run_bootstrap: the remaining
\* phases are skipped and the finally clause runs
Abort(s, phase) ==
  [s EXCEPT !.pc = "cleanup", !.result = "failure", !.failed_at = phase,
            !.raised = (s.ret = "Exc")]

\* a sequencing that calls a phase that has failed once more
Then_again(s, phase, next) ==
  IF s.ret = "True" THEN [s EXCEPT !.pc = next] ELSE [s EXCEPT !.pc = phase]

\* `if not self.phase(): return False`
Then(s, phase, next) ==
  IF s.ret = "True" THEN [s EXCEPT !.pc = next] ELSE Abort(s, phase)

\* run_bootstrap, one phase at a time: the step at the pc of run s0, which
\* is recorded as entered (step 8.0 only if the handoff test is enabled)
run_bootstrap(s0, r) ==
  LET s == IF s0.pc = "handoff" /\ ~s0.enable_leadership_transfer_test THEN s0
           ELSE [s0 EXCEPT !.phases = Append(@, s0.pc)]
  IN
  CASE s.pc = "discover" -> Then(discover_cluster_info(s, r), "discover", "ssh")
    [] s.pc = "ssh" -> Then(validate_ssh_connectivity(s, r), "ssh", "sudo")
    [] s.pc = "sudo" -> Then(validate_sudo_access(s, r), "sudo", "prompt")
    [] s.pc = "prompt" -> Then(check_snapshots_and_prompt(s, r), "prompt", "roles")
    [] s.pc = "roles" -> Then(get_om_roles_from_cli(s, r), "roles", "config")
    [] s.pc = "config" -> Then(get_om_configuration(s, r), "config", "security")
    [] s.pc = "security" ->
         Then(check_security_configuration(s, r), "security", "leader_health")
    [] s.pc = "leader_health" ->
         Then(verify_leader_health(s, r), "leader_health", "logs_before")
    [] s.pc = "logs_before" ->
         Then(list_ratis_logs(s, "before", r), "logs_before", "stop")
    [] s.pc = "stop" -> Then(stop_follower(s, r), "stop", "endpoint")
    [] s.pc = "endpoint" -> Then(test_checkpoint_endpoint(s, r), "endpoint", "download")
    [] s.pc = "download" -> Then(download_checkpoint(s, r), "download", "extract")
    [] s.pc = "extract" -> Then(extract_checkpoint(s, r), "extract", "install")
    [] s.pc = "install" ->
         Then(backup_and_replace_database(s, r), "install", "ratis_backup")
    [] s.pc = "ratis_backup" -> Then(backup_ratis_logs(s, r), "ratis_backup", "start")
    [] s.pc = "start" -> Then(start_follower(s, r), "start", "verify")
    [] s.pc = "verify" -> Then(verify_om_status(s, r), "verify", "logs_after")
    [] s.pc = "logs_after" ->
         \* step 7.1, then step 7.2: restart the role if it is recorded stopped
         LET s1 == list_ratis_logs(s, "after", r)
         IN  [s1 EXCEPT !.pc = IF s1.om_role_was_stopped THEN "restart" ELSE "handoff"]
    [] s.pc = "restart" ->
         \* a failed restart only warns
         [start_follower(s, r) EXCEPT !.pc = "handoff"]
    [] s.pc = "handoff" ->
         LET s1 == IF s.enable_leadership_transfer_test
                   THEN test_leadership_transfer(s, r) ELSE Return(s, "True")
         IN  IF s1.ret = "True" THEN [s1 EXCEPT !.pc = "cleanup", !.result = "success"]
             ELSE Abort(s1, "handoff")
    [] s.pc = "cleanup" -> [cleanup(s, r) EXCEPT !.pc = "done"]

---------------------------------------------------------------------------
(* One run.                                                                *)

NoTwin == [pc |-> "none"]

\* The responses of the reference run: every command succeeds, the service
\* process follows the management commands at once, the roles output names
\* om1 as leader and the target as follower, the operator confirms.
Nominal(pc) ==
  CASE pc = "discover" -> [outcome |-> "ok", roles |-> AllRoles, service_id |-> "svc"]
    [] pc = "ssh" -> [down |-> {}, lookup_error |-> FALSE]
    [] pc = "sudo" -> [direct |-> TRUE, input |-> "hdfs", with_user |-> TRUE]
    [] pc = "prompt" -> [event |-> "typed", text |-> <<"Continue">>]
    [] pc = "roles" ->
         [ getconf |-> TRUE, rc_ok |-> TRUE, lookup_error |-> FALSE,
           parsed |-> [leader |-> "om1", followers |-> {FollowerHost}] ]
    [] pc = "config" ->
         [ error |-> FALSE, db_dir |-> "/om/db", ratis_dir |-> "/om/ratis",
           http_kerberos |-> FALSE ]
    [] pc = "security" ->
         [ error |-> FALSE, security_enabled |-> FALSE, keytab_found |-> TRUE,
           kinit |-> TRUE ]
    [] pc = "leader_health" -> HealthNominal
    [] pc \in {"logs_before", "logs_after"} -> LogsNominal
    [] pc = "stop" -> StopNominal
    [] pc = "endpoint" -> [rc_ok |-> TRUE]
    [] pc = "download" -> DownloadNominal
    [] pc = "extract" -> [mkdir |-> TRUE, tar |-> "ok"]
    [] pc = "install" -> InstallNominal
    [] pc = "ratis_backup" -> [found |-> TRUE, mkdir |-> TRUE, cp |-> TRUE, mv |-> TRUE]
    [] pc \in {"start", "restart"} -> StartNominal
    [] pc = "verify" -> RefetchNominal
    [] pc = "handoff" -> HandoffNominal
    [] pc = "cleanup" -> [rm |-> TRUE]

\* The runs explored differ from the reference run in at most MaxQuirks
\* places: an option of the reference configuration changed, or a step that
\* goes on otherwise than under the nominal responses.  A step that ends the
\* run in failure is free.
MaxQuirks == 1

\* the responses the step of run s can get: those of its phase; the reference
\* response alone where the phase issues no command whose answer it reads (the
\* leader answers the health probe, the handoff test is not enabled)
Resp(s) ==
  CASE s.pc = "discover" -> DiscoverResp
    [] s.pc = "ssh" -> SshResp
    [] s.pc = "sudo" -> SudoResp
    [] s.pc = "prompt" -> PromptResp
    [] s.pc = "roles" -> RolesResp
    [] s.pc = "config" -> ConfigResp
    [] s.pc = "security" -> SecurityResp
    [] s.pc = "leader_health" ->
         {r \in HealthResp : s.leader_host \in r.healthy => r = HealthNominal}
    [] s.pc \in {"logs_before", "logs_after"} -> LogsResp
    [] s.pc = "stop" -> StopResp
    [] s.pc = "endpoint" -> EndpointResp
    [] s.pc = "download" -> DownloadResp
    [] s.pc = "extract" -> ExtractResp
    [] s.pc = "install" -> InstallResp
    [] s.pc = "ratis_backup" -> RatisResp
    [] s.pc \in {"start", "restart"} -> StartResp
    [] s.pc = "verify" -> RefetchResp
    [] s.pc = "handoff" ->
         IF s.enable_leadership_transfer_test THEN HandoffResp ELSE {HandoffNominal}
    [] s.pc = "cleanup" -> CleanupResp
    [] OTHER -> {}

\* a step that differs from the nominal one without failing the run is
\* counted in quirks
Charged(n, nominal) ==
  IF n.result = "failure" \/ n = nominal THEN n
  ELSE [n EXCEPT !.quirks = @ + 1]

\* the run after the step at its pc with responses r
Stepped(s, r) == Charged(run_bootstrap(s, r), run_bootstrap(s, Nominal(s.pc)))

\* the configurations: a dry or a real run, as root or as a user who needs
\* sudo, of the reference configuration (keytab and principal given, no
\* leadership-handoff test, the target's service process running) or one
\* that differs from it
Runs ==
  { [InitRun(dry, sshuser, sudouser, keytab, handoff, running) EXCEPT
       !.quirks = (IF keytab THEN 0 ELSE 1) + (IF handoff THEN 1 ELSE 0)
                    + (IF running THEN 0 ELSE 1)] :
      dry \in BOOLEAN, sshuser \in {"root", "admin"}, sudouser \in {None, "hdfs"},
      keytab \in BOOLEAN, handoff \in BOOLEAN, running \in BOOLEAN }

Init == run \in {c \in Runs : c.quirks <= MaxQuirks} /\ twin = NoTwin

\* the run takes the step at its pc with responses r
Go(r) ==
  /\ run' = Stepped(run, r)
  /\ run'.quirks <= MaxQuirks
  /\ UNCHANGED twin

DiscoverTopology == run.pc = "discover" /\ \E r \in Resp(run) : Go(r)

ValidateConnectivity == run.pc = "ssh" /\ \E r \in Resp(run) : Go(r)

ValidateSudo == run.pc = "sudo" /\ \E r \in Resp(run) : Go(r)

SafetyGate == run.pc = "prompt" /\ \E r \in Resp(run) : Go(r)

ResolveRoleState == run.pc = "roles" /\ \E r \in Resp(run) : Go(r)

ResolveConfiguration == run.pc = "config" /\ \E r \in Resp(run) : Go(r)

ValidateSecurity == run.pc = "security" /\ \E r \in Resp(run) : Go(r)

VerifyLeaderHealth == run.pc = "leader_health" /\ \E r \in Resp(run) : Go(r)

SnapshotLogPositions ==
  run.pc \in {"logs_before", "logs_after"} /\ \E r \in Resp(run) : Go(r)

StopTarget == run.pc = "stop" /\ \E r \in Resp(run) : Go(r)

TestCheckpointEndpoint == run.pc = "endpoint" /\ \E r \in Resp(run) : Go(r)

DownloadCheckpoint == run.pc = "download" /\ \E r \in Resp(run) : Go(r)

ExtractCheckpoint == run.pc = "extract" /\ \E r \in Resp(run) : Go(r)

BackupAndInstallDatabase == run.pc = "install" /\ \E r \in Resp(run) : Go(r)

BackupConsensusLogs == run.pc = "ratis_backup" /\ \E r \in Resp(run) : Go(r)

StartTarget == run.pc \in {"start", "restart"} /\ \E r \in Resp(run) : Go(r)

VerifyConvergence == run.pc = "verify" /\ \E r \in Resp(run) : Go(r)

TestLeadershipHandoff == run.pc = "handoff" /\ \E r \in Resp(run) : Go(r)

Cleanup == run.pc = "cleanup" /\ \E r \in Resp(run) : Go(r)

Next ==
  \/ DiscoverTopology
  \/ ValidateConnectivity
  \/ ValidateSudo
  \/ SafetyGate
  \/ ResolveRoleState
  \/ ResolveConfiguration
  \/ ValidateSecurity
  \/ VerifyLeaderHealth
  \/ SnapshotLogPositions
  \/ StopTarget
  \/ TestCheckpointEndpoint
  \/ DownloadCheckpoint
  \/ ExtractCheckpoint
  \/ BackupAndInstallDatabase
  \/ BackupConsensusLogs
  \/ StartTarget
  \/ VerifyConvergence
  \/ TestLeadershipHandoff
  \/ Cleanup

Spec == Init /\ [][Next]_vars

---------------------------------------------------------------------------
(* A real run and a dry run of the same configuration in the same          *)
(* environment: `run` is the real run and `twin` the dry run.  A phase both *)
(* runs are at gets the same responses in both.                            *)

\* (the pairs run as root without a sudo user, which root does not use, or
\* as the other user with the sudo user given)
InitTwin ==
  /\ run \in {c \in Runs : /\ c.quirks <= MaxQuirks /\ ~c.dry_run
                            /\ c.ssh_user = "root" <=> c.sudo_user = None}
  /\ twin = [run EXCEPT !.dry_run = TRUE]

\* both runs take the step of the phase they are at, with the same responses
PhaseOfBoth ==
  /\ run.pc = twin.pc
  /\ run.pc # "done"
  /\ \E r \in Resp(run) :
       LET n == Stepped(run, r)
       IN  /\ n.quirks <= MaxQuirks
           /\ run' = n
           /\ twin' = [run_bootstrap(twin, r) EXCEPT !.quirks = n.quirks]

\* the runs are at different phases: the real run has failed where the dry
\* run goes on, and the dry run takes its next step; a phase only the real run
\* enters (the restart of step 7.2) is taken by the real run
PhaseOfOne ==
  /\ run.pc # twin.pc
  /\ \E real \in {run.pc \notin {"cleanup", "done"} \/ twin.pc = "done"} :
       \E r \in Resp(IF real THEN run ELSE twin) :
         LET n == Stepped(IF real THEN run ELSE twin, r)
         IN  /\ n.quirks <= MaxQuirks
             /\ run' = IF real THEN n ELSE run
             /\ twin' = IF real THEN twin ELSE n

NextTwin ==
  \/ PhaseOfBoth
  \/ PhaseOfOne

SpecTwin == InitTwin /\ [][NextTwin]_vars

---------------------------------------------------------------------------
(* Runs with --enable-leadership-transfer-test: the reference configuration *)
(* is the one with the handoff test enabled.                               *)

InitHandoff ==
  /\ run \in { [c EXCEPT !.quirks = @ - 1] :
                 c \in {d \in Runs : /\ d.enable_leadership_transfer_test
                                     /\ d.quirks <= MaxQuirks + 1} }
  /\ twin = NoTwin

SpecHandoff == InitHandoff /\ [][Next]_vars

---------------------------------------------------------------------------
(* The command line: `twin` is the process of main (its arguments, the     *)
(* requests main itself has made, its exit code) and `run` the orchestrator *)
(* once main has constructed it.                                           *)

NotConstructed == [pc |-> "none", trace |-> <<>>, phases |-> <<>>]

\* the arguments main reads before it constructs the orchestrator: whether
\* each option is given
MainArgs ==
  [ list_clusters : BOOLEAN, cluster : BOOLEAN, follower_host : BOOLEAN,
    dry_run : BOOLEAN, yes : BOOLEAN ]

\* whether the management API lists a cluster
MainResp == [clusters : BOOLEAN]

sys_exit(m, code) == [m EXCEPT !.pc = "exit", !.exit_code = code]

\* main without the check of --yes
main_unguarded(m, r) ==
  IF m.list_clusters
  THEN sys_exit([m EXCEPT !.requests = Append(@, "list_clusters")],
                IF r.clusters THEN 0 ELSE 1)
  ELSE IF ~m.cluster THEN sys_exit(m, 1)
  ELSE IF ~m.follower_host THEN sys_exit(m, 1)
  ELSE [m EXCEPT !.pc = "bootstrap"]

\* main up to the construction of the orchestrator
main(m, r) ==
  IF m.list_clusters
  THEN sys_exit([m EXCEPT !.requests = Append(@, "list_clusters")],
                IF r.clusters THEN 0 ELSE 1)
  ELSE IF ~m.cluster THEN sys_exit(m, 1)
  ELSE IF ~m.follower_host THEN sys_exit(m, 1)
  ELSE IF ~m.dry_run /\ ~m.yes THEN sys_exit(m, 1)
  ELSE [m EXCEPT !.pc = "bootstrap"]

InitMain ==
  /\ twin \in { [ pc |-> "main", list_clusters |-> a.list_clusters,
                   cluster |-> a.cluster, follower_host |-> a.follower_host,
                   dry_run |-> a.dry_run, yes |-> a.yes, requests |-> <<>>,
                   exit_code |-> None ] : a \in MainArgs }
  /\ run = NotConstructed

\* main parses the arguments and exits, or constructs the orchestrator with
\* the remaining arguments
Main ==
  /\ twin.pc = "main"
  /\ \E r \in MainResp :
       /\ twin' = main(twin, r)
       /\ IF twin'.pc = "bootstrap"
          THEN run' \in {c \in Runs : c.quirks <= MaxQuirks /\ c.dry_run = twin.dry_run}
          ELSE run' = run

\* main exits with the result of run_bootstrap
Exit ==
  /\ twin.pc = "bootstrap"
  /\ run.pc = "done"
  /\ twin' = sys_exit(twin, IF run.result = "success" THEN 0 ELSE 1)
  /\ UNCHANGED run

NextMain ==
  \/ Main
  \/ Next
  \/ Exit

SpecMain == InitMain /\ [][NextMain]_vars

---------------------------------------------------------------------------
(* The role-state parsing alone: `twin` is a cluster, the role and host of *)
(* each of its Ozone Managers in the order of the roles output, and `run`  *)
(* what the parsing makes of the cluster's roles output in each format.    *)

Members == [role : {"LEADER", "FOLLOWER"}, host : OMHosts]

Clusters == SeqsUpTo(Members, MaxLines)

\* the roles output of cluster c with every line in format fmt
Render(c, fmt) ==
  [i \in 1..Len(c) |-> [fmt |-> fmt, role |-> c[i].role, host |-> c[i].host]]

\* the hosts the lines of cluster c name as LEADER
LeaderLines(c) == {c[i].host : i \in {j \in 1..Len(c) : c[j].role = "LEADER"}}

InitParse ==
  /\ twin \in {[pc |-> "cluster", lines |-> c] : c \in Clusters}
  /\ run = [pc |-> "parse", by_format |-> <<>>]

\* the cluster's roles output in one more format is parsed
ParseRolesOutput ==
  /\ run.pc = "parse"
  /\ \E fmt \in Formats \ DOMAIN run.by_format :
       run' = [run EXCEPT !.by_format =
                 [f \in DOMAIN run.by_format \cup {fmt} |->
                    IF f = fmt THEN parse_roles(Render(twin.lines, fmt))
                    ELSE run.by_format[f]]]
  /\ UNCHANGED twin

NextParse == ParseRolesOutput

SpecParse == InitParse /\ [][NextParse]_vars

---------------------------------------------------------------------------
(* A run whose cleanup is called a second time after run_bootstrap has     *)
(* returned: `twin` keeps the run as the first call left it.               *)

CleanupAgain ==
  /\ run.pc = "done"
  /\ twin = NoTwin
  /\ \E r \in CleanupResp :
       /\ run' = cleanup(run, r)
       /\ twin' = run

NextAgain ==
  \/ Next
  \/ CleanupAgain

SpecAgain == Init /\ [][NextAgain]_vars

---------------------------------------------------------------------------
(* CmClient.ensure_ozone_site_properties_for_role_type                     *)
(* (src/common/cm_client.py).  A text is a sequence of symbols: characters  *)
(* and, as one symbol each, the pieces of markup and the newline.  `run`    *)
(* is the management server (its role config groups) with the call in      *)
(* progress, `twin` the same after the first of two calls.                 *)

\* most <property> entries in a safety valve before the call
MaxEntries == 1

\* property names: "a" occurs in "ab" and in no other name
PropertyNames == {<<"a">>, <<"a", "b">>, <<"c">>}

\* property values: the value "a" holds the name "a"
PropertyValues == {<<"x">>, <<"a">>}

\* f"<property><name>{pname}</name><value>{pval}</value></property>"
PropertyXml(pname, pval) ==
  <<"<property><name>">> \o pname \o <<"</name><value>">> \o pval
    \o <<"</value></property>">>

\* "".join(parts)
RECURSIVE Join(_)
Join(parts) == IF parts = <<>> THEN <<>> ELSE Head(parts) \o Join(Tail(parts))

\* Python's `p in t` on strings
IsSubstring(p, t) ==
  \E i \in 0..(Len(t) - Len(p)) : SubSeq(t, i + 1, i + Len(p)) = p

\* the text holds a <property> entry with the name pname
HasEntry(t, pname) ==
  IsSubstring(<<"<property><name>">> \o pname \o <<"</name><value>">>, t)

\* the safety-valve contents before the call
ValveEntries == {PropertyXml(n, v) : n \in PropertyNames, v \in PropertyValues}

ValveTexts == {Join(es) : es \in SeqsUpTo(ValveEntries, MaxEntries)}

\* a role config group: of the role type asked for or of another, with an
\* ozone-site safety valve or without, and the valve's value
RoleConfigGroups ==
  { g \in [roleType : {"OZONE_MANAGER", "DATANODE"}, valve : BOOLEAN,
           value : ValveTexts] :
      (g.roleType # "OZONE_MANAGER" \/ ~g.valve) => g.value = <<>> }

\* the properties asked for, name -> value, in the order of the dict
PropertyDicts ==
  { SelectSeq(<< [name |-> <<"a">>, value |-> <<"x">>],
                 [name |-> <<"a", "b">>, value |-> <<"x">>],
                 [name |-> <<"c">>, value |-> <<"x">>] >>,
              LAMBDA q : q.name \in names) : names \in SUBSET PropertyNames }

\* the loop over properties.items() that appends every property
missing_xml_parts_unchecked(current_val, properties) ==
  [i \in 1..Len(properties) |-> PropertyXml(properties[i].name, properties[i].value)]

\* the loop over properties.items(): the entries of the properties whose
\* name does not occur in the current value
missing_xml_parts(current_val, properties) ==
  LET missing == SelectSeq(properties, LAMBDA q : ~IsSubstring(q.name, current_val))
  IN  [i \in 1..Len(missing) |-> PropertyXml(missing[i].name, missing[i].value)]

\* the response of the server to a call: the group whose PUT is refused with
\* an HTTP error, 0 when none is
EnsureResp == [refused : 0..2]

\* the loop over the groups from group i on; c is the call: the server's
\* groups, the counters of the summary, and whether a request has raised
RECURSIVE ensure_groups(_, _, _, _)
ensure_groups(c, properties, r, i) ==
  IF i > Len(c.groups) THEN [c EXCEPT !.pc = "returned"]
  ELSE
    LET g == c.groups[i]
    IN  IF g.roleType # "OZONE_MANAGER" THEN ensure_groups(c, properties, r, i + 1)
        ELSE IF ~g.valve THEN ensure_groups(c, properties, r, i + 1)
        ELSE
          LET current_val == g.value
              parts == missing_xml_parts(current_val, properties)
          IN  IF parts = <<>>
              THEN ensure_groups([c EXCEPT !.skipped = @ + 1], properties, r, i + 1)
              ELSE IF r.refused = i THEN [c EXCEPT !.pc = "raised"]
              ELSE
                LET new_val ==
                      current_val
                        \o (IF current_val # <<>> /\ current_val[Len(current_val)] # "nl"
                            THEN <<"nl">> ELSE <<>>)
                        \o Join(parts)
                IN  ensure_groups([c EXCEPT !.groups[i].value = new_val,
                                            !.updated = @ + 1],
                                  properties, r, i + 1)

ensure_ozone_site_properties_for_role_type(c, properties, r) ==
  ensure_groups([c EXCEPT !.updated = 0, !.skipped = 0], properties, r, 1)

InitEnsure ==
  /\ run \in { [ pc |-> "call", groups |-> <<g1, g2>>, properties |-> d,
                  updated |-> 0, skipped |-> 0 ] :
                g1 \in RoleConfigGroups, g2 \in RoleConfigGroups, d \in PropertyDicts }
  /\ twin = NoTwin

\* the call
Ensure ==
  /\ run.pc = "call"
  /\ \E r \in EnsureResp :
       run' = ensure_ozone_site_properties_for_role_type(run, run.properties, r)
  /\ UNCHANGED twin

\* a second call with the same properties, the server holding what the first
\* call has written
EnsureAgain ==
  /\ run.pc = "returned"
  /\ twin = NoTwin
  /\ \E r \in EnsureResp :
       run' = ensure_ozone_site_properties_for_role_type(run, run.properties, r)
  /\ twin' = run

NextEnsure ==
  \/ Ensure
  \/ EnsureAgain

SpecEnsure == InitEnsure /\ [][NextEnsure]_vars

---------------------------------------------------------------------------
(* The polling loops of stop_follower and start_follower, one probe at a   *)
(* step and every probe with any outcome: `run` is the run in the loop and *)
(* `twin` counts the probes made and keeps what the last one showed.       *)

\* what one probe meets: whether the process follows the management command
\* before it, and how the probe ends
PollResp == [moves : BOOLEAN, probe : ProbeOutcomes]

InitPoll ==
  /\ run \in
       { [ InitRun(FALSE, "root", None, TRUE, FALSE, running) EXCEPT
             !.pc = loop, !.ret = "Poll", !.stopping = (loop = "stop"),
             !.starting = (loop = "start") ] :
           running \in BOOLEAN, loop \in {"stop", "start"} }
  /\ twin = [pc |-> "probes", made |-> 0, awaited |-> FALSE]

\* one iteration of `while elapsed_time < max_wait_time` in stop_follower
StopProbe ==
  /\ run.pc = "stop" /\ run.ret = "Poll"
  /\ \E r \in PollResp :
       /\ run' = stop_follower_poll(run, r)
       /\ twin' = [twin EXCEPT !.made = @ + 1,
                               !.awaited = (pgrep(run'.proc, r.probe) # 0)]

\* one iteration of `while elapsed_time < max_wait_time` in start_follower
StartProbe ==
  /\ run.pc = "start" /\ run.ret = "Poll"
  /\ \E r \in PollResp :
       /\ run' = start_follower_poll(run, r)
       /\ twin' = [twin EXCEPT !.made = @ + 1,
                               !.awaited = (pgrep(run'.proc, r.probe) = 0)]

NextPoll ==
  \/ StopProbe
  \/ StartProbe

SpecPoll == InitPoll /\ [][NextPoll]_vars

---------------------------------------------------------------------------
(* get_om_configuration on the configuration items of the management API.  *)
(* A configuration is its items by name, each with the value              *)
(* _extract_value gives for it: Absent when the item is not there, ""     *)
(* when it has no value.  A value set at a level is written as the name   *)
(* of that level: "role", "service" or the name of a role config group.   *)
(* The alternative port names ozone.om.http.port and ozone.om.https.port  *)
(* are read as the two port names are.  `run` is the call, `twin` is not  *)
(* used.                                                                  *)

\* most role config groups of the service
MaxGroups == 2

Absent == "absent"

DirNames == {"ozone.om.db.dirs", "ozone.om.ratis.storage.dir"}

PortNames == {"ozone.om.http-port", "ozone.om.https-port"}

ConfigNames == DirNames \cup PortNames \cup {"ssl_enabled"}

\* the values of ssl_enabled
SslValues == {"true", "TRUE", "false"}

\* `and val` of the parsing loops
Truthy(v) == v \notin {Absent, ""}

\* val.lower()
Lower(v) == IF v = "TRUE" THEN "true" ELSE v

\* the configuration with these values of the five items
Config(db, ratis, http, https, ssl) ==
  [ n \in ConfigNames |->
      CASE n = "ozone.om.db.dirs" -> db
        [] n = "ozone.om.ratis.storage.dir" -> ratis
        [] n = "ozone.om.http-port" -> http
        [] n = "ozone.om.https-port" -> https
        [] OTHER -> ssl ]

\* the configurations of the target's role
RoleConfigs ==
  { Config(db, ratis, http, https, ssl) :
      db \in {Absent, "", "role"}, ratis \in {Absent, "", "role"},
      http \in {Absent, "", "role"}, https \in {Absent, "", "role"},
      ssl \in {Absent} \cup SslValues }

\* the configurations of the service
ServiceConfigs ==
  { Config(db, ratis, http, https, ssl) :
      db \in {Absent, "", "service"}, ratis \in {Absent, "", "service"},
      http \in {Absent, "service"}, https \in {Absent, "service"},
      ssl \in {Absent, "true"} }

GroupNames ==
  {"OZONE_MANAGER-BASE", "OZONE_MANAGER-1", "OZONE_MANAGER-2", "DATANODE-BASE"}

\* g.get("roleType") of the group named n
RoleTypeOf(n) == IF n = "DATANODE-BASE" THEN "DATANODE" ELSE "OZONE_MANAGER"

\* gname.endswith("-BASE")
EndsWithBase(n) == n \in {"OZONE_MANAGER-BASE", "DATANODE-BASE"}

\* the role config groups, each with its configuration
ConfigGroups ==
  { [ name |-> n, roleType |-> RoleTypeOf(n),
      items |-> Config(db, Absent, Absent, https, "true") ] :
      n \in GroupNames, db \in {Absent, "group"}, https \in {Absent, "group"} }

\* what list_role_config_groups can return: groups of different names, the
\* values of a group written as its name
GroupLists ==
  { [ i \in DOMAIN q |->
        [ q[i] EXCEPT !.items =
            [n \in ConfigNames |-> IF @[n] = "group" THEN q[i].name ELSE @[n]] ] ] :
      q \in { x \in UNION {[1..k -> ConfigGroups] : k \in 0..MaxGroups} :
                \A i, j \in 1..Len(x) : i # j => x[i].name # x[j].name } }

\* `if not role_items`
NoItems(items) == \A n \in ConfigNames : items[n] = Absent

\* the OZONE_MANAGER groups of the list
om_groups(groups) == SelectSeq(groups, LAMBDA g : g.roleType = "OZONE_MANAGER")

\* the first group whose name ends in -BASE, else the first group
base_group(groups) ==
  LET base == {i \in 1..Len(groups) : EndsWithBase(groups[i].name)}
  IN  IF base # {} THEN groups[CHOOSE i \in base : \A j \in base : i <= j]
      ELSE groups[1]

\* `for item in role_items`: the role-level keys
role_level(s, role_items) ==
  LET found(n) == IF Truthy(role_items[n]) THEN role_items[n] ELSE None
  IN  [s EXCEPT !.om_db_dir = found("ozone.om.db.dirs"),
                !.ratis_dir = found("ozone.om.ratis.storage.dir"),
                !.om_http_port = found("ozone.om.http-port"),
                !.om_https_port = found("ozone.om.https-port"),
                !.ssl_enabled = /\ Truthy(role_items["ssl_enabled"])
                                /\ Lower(role_items["ssl_enabled"]) = "true"]

\* service_level that takes the directories of the service whenever it has them
service_level_first(s, svc_items) ==
  LET over(n, now) == IF Truthy(svc_items[n]) THEN svc_items[n] ELSE now
  IN  [s EXCEPT !.om_db_dir = over("ozone.om.db.dirs", @),
                !.ratis_dir = over("ozone.om.ratis.storage.dir", @)]

\* `for item in svc_items`: the fallback for the two directories
service_level(s, svc_items) ==
  LET fallback(n, now) ==
        IF Truthy(svc_items[n]) /\ now = None THEN svc_items[n] ELSE now
  IN  [s EXCEPT !.om_db_dir = fallback("ozone.om.db.dirs", @),
                !.ratis_dir = fallback("ozone.om.ratis.storage.dir", @)]

\* determine_protocol that selects HTTPS whenever an HTTPS port was resolved
determine_protocol_by_port(s) ==
  IF s.om_https_port # None
  THEN [s EXCEPT !.om_protocol = "https", !.om_port = s.om_https_port]
  ELSE IF s.om_http_port # None
  THEN [s EXCEPT !.om_protocol = "http", !.om_port = s.om_http_port]
  ELSE [s EXCEPT !.om_protocol = "http", !.om_port = "9874"]

\* step 4 of get_om_configuration: protocol and port
determine_protocol(s) ==
  IF s.ssl_enabled /\ s.om_https_port # None
  THEN [s EXCEPT !.om_protocol = "https", !.om_port = s.om_https_port]
  ELSE IF s.om_http_port # None
  THEN [s EXCEPT !.om_protocol = "http", !.om_port = s.om_http_port]
  ELSE [s EXCEPT !.om_protocol = "http", !.om_port = "9874"]

\* get_om_configuration from the items on, the role of the target known and
\* no request failing
resolve_om_configuration(s) ==
  IF NoItems(s.role_cfg) /\ om_groups(s.groups) = <<>>
  THEN [s EXCEPT !.pc = "resolved", !.ret = "False"]
  ELSE
    LET role_items == IF NoItems(s.role_cfg)
                      THEN base_group(om_groups(s.groups)).items
                      ELSE s.role_cfg
        s1 == determine_protocol(service_level(role_level(s, role_items), s.svc_cfg))
    IN  [s1 EXCEPT !.pc = "resolved",
                   !.ret = IF s1.om_db_dir = None THEN "False" ELSE "True"]

\* the call on the configuration c of the role, the groups q and the
\* configuration v of the service
ConfigCall(c, q, v) ==
  [ pc |-> "config", ret |-> "none", role_cfg |-> c, groups |-> q, svc_cfg |-> v,
    om_db_dir |-> None, ratis_dir |-> None, om_http_port |-> None,
    om_https_port |-> None, ssl_enabled |-> FALSE, om_protocol |-> None,
    om_port |-> None ]

\* the groups are listed only when the role has no configuration of its own
InitConfig ==
  /\ \E c \in RoleConfigs, v \in ServiceConfigs :
       \E q \in IF NoItems(c) THEN GroupLists ELSE {<<>>} :
         run = ConfigCall(c, q, v)
  /\ twin = NoTwin

GetOmConfiguration ==
  /\ run.pc = "config"
  /\ run' = resolve_om_configuration(run)
  /\ UNCHANGED twin

NextConfig == GetOmConfiguration

SpecConfig == InitConfig /\ [][NextConfig]_vars

---------------------------------------------------------------------------
(* _run_remote_command, the remote executor.  `run` is one call: the       *)
(* fields of the orchestrator it reads, the command, what ssh does, and    *)
(* after the call the command line handed to ssh and the result; `twin`    *)
(* keeps the orchestrator's fields as they were before the call.  A        *)
(* command is its program and its argument; the test for the substrings    *)
(* 'ozone' and 'admin' is decided for each piece of text by OzoneOrAdmin.  *)

\* timeout=300 of subprocess.run
RemoteTimeout == 300

\* the programs of the commands the orchestrator builds
CliPrograms == {"ozone"}

PlainPrograms == {"mkdir", "cp", "mv", "tar", "find", "pgrep", "rm", "chown"}

\* the directories the commands name: a data or log directory as the
\* reference installation has it, one elsewhere, and the temporary directory
CommandPaths == {"/var/lib/hadoop-ozone/om", "/data/om", "/tmp/om_bootstrap"}

\* the commands: the roles command of the CLI, the process probe with the
\* class name of the service, and the file commands on a directory
RemoteCommands ==
  {[program |-> "ozone", arg |-> "admin om roles"]}
  \cup {[program |-> "pgrep", arg |-> "org.apache.hadoop.ozone.om.OzoneManagerStarter"]}
  \cup [program : PlainPrograms \ {"pgrep"}, arg : CommandPaths]

\* 'ozone' in text.lower() or 'admin' in text.lower(), for the pieces of text
\* of the commands
OzoneOrAdmin(text) ==
  text \in { "ozone", "admin om roles", "org.apache.hadoop.ozone.om.OzoneManagerStarter",
             "/var/lib/hadoop-ozone/om" }

\* what ssh does: it ends with a return code after some seconds, or
\* subprocess.run raises another exception
Transports ==
  [outcome : {"ran"}, seconds : {1, RemoteTimeout, RemoteTimeout + 1, 86400},
   returncode : {0, 1, 255}]
  \cup [outcome : {"exception"}, seconds : {0}, returncode : {0}]

\* the fields of the orchestrator the executor reads
ExecutorFields ==
  [ ozone_security_enabled : BOOLEAN, keytab : BOOLEAN,
    ssh_user : {"root", "admin"}, sudo_user : {None, "hdfs"} ]

\* _run_remote_command that lets the exceptions of subprocess.run through
run_remote_command_raising(s) ==
  LET mentions == OzoneOrAdmin(s.command.program) \/ OzoneOrAdmin(s.command.arg)
      kinit == IF s.self.ozone_security_enabled /\ mentions
               THEN IF s.self.keytab THEN "kinit -kt" ELSE "kinit"
               ELSE "none"
      sudo == s.use_sudo /\ s.self.sudo_user # None /\ s.self.ssh_user # "root"
      s1 == [s EXCEPT !.pc = "returned", !.kinit = kinit, !.sudo = sudo]
  IN  IF s.transport.outcome = "ran" /\ s.transport.seconds <= RemoteTimeout
      THEN [s1 EXCEPT !.waited = s.transport.seconds,
                      !.returncode = s.transport.returncode,
                      !.stdout = "output", !.stderr = "errors"]
      ELSE IF s.transport.outcome = "ran"
      THEN [s1 EXCEPT !.waited = RemoteTimeout, !.returncode = -1,
                      !.stdout = "", !.stderr = "Command timed out"]
      ELSE [s1 EXCEPT !.raised = TRUE]

\* _run_remote_command
run_remote_command(s) ==
  LET mentions == OzoneOrAdmin(s.command.program) \/ OzoneOrAdmin(s.command.arg)
      kinit == IF s.self.ozone_security_enabled /\ mentions
               THEN IF s.self.keytab THEN "kinit -kt" ELSE "kinit"
               ELSE "none"
      sudo == s.use_sudo /\ s.self.sudo_user # None /\ s.self.ssh_user # "root"
      s1 == [s EXCEPT !.pc = "returned", !.kinit = kinit, !.sudo = sudo]
  IN  IF s.transport.outcome = "ran" /\ s.transport.seconds <= RemoteTimeout
      THEN [s1 EXCEPT !.waited = s.transport.seconds,
                      !.returncode = s.transport.returncode,
                      !.stdout = "output", !.stderr = "errors"]
      ELSE IF s.transport.outcome = "ran"
      THEN [s1 EXCEPT !.waited = RemoteTimeout, !.returncode = -1,
                      !.stdout = "", !.stderr = "Command timed out"]
      ELSE [s1 EXCEPT !.returncode = -1, !.stdout = "", !.stderr = "str(e)"]

InitExec ==
  /\ \E f \in ExecutorFields, c \in RemoteCommands, u \in BOOLEAN, x \in Transports :
       run = [ pc |-> "call", self |-> f, command |-> c, use_sudo |-> u,
               transport |-> x, kinit |-> "none", sudo |-> FALSE, waited |-> 0,
               returncode |-> 0, stdout |-> "", stderr |-> "", raised |-> FALSE ]
  /\ twin = run.self

RunRemoteCommand ==
  /\ run.pc = "call"
  /\ run' = run_remote_command(run)
  /\ UNCHANGED twin

NextExec == RunRemoteCommand

SpecExec == InitExec /\ [][NextExec]_vars

---------------------------------------------------------------------------
(* Runs constructed at different seconds: `twin` keeps the run identifier   *)
(* and the backup root as __init__ has set them.                            *)

\* int(time.time()) at construction
Epochs == {1700000000, 1700000060}

InitNames ==
  /\ \E c \in {d \in Runs : /\ d.quirks <= MaxQuirks
                            /\ d.ssh_user = "root" /\ d.sudo_user = None},
        e \in Epochs :
       /\ run = [c EXCEPT !.epoch_time = e, !.backup_dir = om_bootstrap_dir(e)]
       /\ twin = [pc |-> "built", epoch_time |-> e, backup_dir |-> om_bootstrap_dir(e)]

SpecNames == InitNames /\ [][Next]_vars

---------------------------------------------------------------------------
(* The commands of the log, by kind.                                       *)

RoleCommands == {"cm_stop", "cm_start"}

\* commands that copy, rename or move files in the database directory or in
\* the consensus-log directory of the target
LiveDirCommands == {"cp_db", "mv_db_aside", "mv_new_db", "cp_ratis", "mv_ratis"}

\* commands that create, extract, copy, move or re-own files on the target
FileCommands ==
  { "mkdir_extract", "tar_x", "mkdir_backup", "cp_db", "mv_db_aside", "mv_new_db",
    "chown_db", "mkdir_ratis_backup", "cp_ratis", "mv_ratis" }

\* every state-mutating command
MutatingCommands == FileCommands \cup RoleCommands \cup {"mktemp", "rm_tmp", "transfer"}

\* the commands the run s has issued
Issued(s) == {s.trace[i].cmd : i \in 1..Len(s.trace)}

\* the phases after Stop in which the checkpoint is fetched and installed
InstallPhases == {"endpoint", "download", "extract", "install", "ratis_backup"}

\* the phases in the order in which run_bootstrap calls them: steps 1.0 to
\* 6.0, then 7.0 (verify_om_status), 7.1 (the log listing) and 8.0;
\* ValidateConnectivity is "ssh" and then "sudo", SafetyGate is "prompt"
CodeOrder ==
  << "discover", "ssh", "sudo", "prompt", "roles", "config", "security",
     "leader_health", "logs_before", "stop", "endpoint", "download", "extract",
     "install", "ratis_backup", "start", "verify", "logs_after", "handoff" >>

\* p is an initial part of q
IsPrefix(p, q) == Len(p) <= Len(q) /\ p = SubSeq(q, 1, Len(p))

\* the phases the run s has entered, the finally clause left out
Entered(s) == SelectSeq(s.phases, LAMBDA x : x # "cleanup")

\* position of a phase in the order of run_bootstrap; a run that succeeded
\* has failed at no phase
PhaseRank(phase) ==
  CASE phase = "discover" -> 1 [] phase = "ssh" -> 2 [] phase = "sudo" -> 3
    [] phase = "prompt" -> 4 [] phase = "roles" -> 5 [] phase = "config" -> 6
    [] phase = "security" -> 7 [] phase = "leader_health" -> 8
    [] phase = "logs_before" -> 9 [] phase = "stop" -> 10 [] phase = "endpoint" -> 11
    [] phase = "download" -> 12 [] phase = "extract" -> 13 [] phase = "install" -> 14
    [] phase = "ratis_backup" -> 15 [] phase = "start" -> 16 [] phase = "verify" -> 17
    [] phase = "handoff" -> 18 [] OTHER -> 19

---------------------------------------------------------------------------
(* The claims.                                                             *)

\* C1 (as stated): when a run has terminated, the live database path of the
\* target holds the database it held before the run or the installed
\* checkpoint; it is never absent or half-replaced.
C1_LiveDatabaseIntact ==
  run.pc = "done" => run.db \in {"orig", "ckpt"}

\* C2 (as stated): in a real run, when Stop has stopped the target's process
\* and a later phase up to BackupConsensusLogs has failed, a start command
\* for the target role has been issued by the time the run terminates.
C2_RestartAfterFailure ==
  ( /\ run.pc = "done"
    /\ ~run.dry_run
    /\ run.stop_confirmed /\ run.proc_before /\ ~run.proc
    /\ run.failed_at \in InstallPhases )
  => "cm_start" \in Issued(run)

\* C3 (as stated): in a real run, no command that copies, renames or moves
\* files in the database or consensus-log directory of the target is issued
\* while the target's service process is running.
C3_FilesTouchedOnlyWhenStopped ==
  ~run.dry_run =>
    \A i \in 1..Len(run.trace) :
      run.trace[i].cmd \in LiveDirCommands => ~run.trace[i].proc

\* C4: when the roles output has been parsed and the target is not in the
\* follower set parsed from it (the empty set included), the run gets no
\* further than ResolveConfiguration, ends in failure, and issues no role
\* stop command and no file command on the target.
C4_NoStopWithoutMembership ==
  (run.roles_parsed /\ FollowerHost \notin run.followers) =>
    /\ run.pc \in {"config", "cleanup", "done"}
    /\ run.pc # "config" => run.result = "failure"
    /\ Issued(run) \cap ({"cm_stop"} \cup FileCommands) = {}

C4_Witness ==
  /\ run.pc = "done"
  /\ run.roles_parsed
  /\ run.followers = {}
  /\ run.failed_at = "config"

C6_DryRunMutatesNothing ==
  run.dry_run => Issued(run) \cap MutatingCommands = {}

\* C7 (as stated): in the same environment a dry run and a real run end in
\* the same phase with the same result.
C7_DryRunEndsAsRealRun ==
  (run.pc = "done" /\ twin.pc = "done") =>
    /\ twin.result = run.result
    /\ twin.failed_at = run.failed_at

\* C7 (amended): in the same environment a dry run gets at least as far as
\* the real run: when the dry run fails, the real run fails too, at the same
\* or at an earlier phase; so the dry run succeeds whenever the real run does.
C7_DryRunGetsAsFar ==
  (run.pc = "done" /\ twin.pc = "done") =>
    /\ run.result = "success" => twin.result = "success"
    /\ PhaseRank(run.failed_at) <= PhaseRank(twin.failed_at)

C7_Witness ==
  /\ run.pc = "done" /\ twin.pc = "done"
  /\ run.result = "failure" /\ run.failed_at = "stop"
  /\ twin.result = "failure" /\ twin.failed_at = "handoff"

\* C8 (as stated): in a real run, when the search of the downloaded artifact
\* finds error or exception text, DownloadCheckpoint fails and no rename of
\* the live database is issued.
C8_ErrorTextRejected ==
  (~run.dry_run /\ run.artifact_seen = "error_text") =>
    /\ run.pc \in {"cleanup", "done"}
    /\ run.failed_at = "download"
    /\ Issued(run) \cap {"mv_db_aside", "mv_new_db"} = {}

\* C9: in a real run, when the tar test of the downloaded artifact has
\* failed, the run has failed at DownloadCheckpoint, ExtractCheckpoint is not
\* entered, no file command is issued against the database, and once the run
\* has terminated Cleanup has issued the removal of the temporary directory.
C9_TarTestFailureAborts ==
  (~run.dry_run /\ run.tar_test_failed) =>
    /\ run.pc \in {"cleanup", "done"}
    /\ run.result = "failure"
    /\ run.failed_at = "download"
    /\ Issued(run) \cap FileCommands = {}
    /\ run.pc = "done" => run.trace[Len(run.trace)].cmd = "rm_tmp"

C9_Witness ==
  /\ run.pc = "done"
  /\ ~run.dry_run
  /\ run.tar_test_failed
  /\ run.artifact = "error_page"

\* C10: Cleanup runs exactly once, as the last step of every run; it issues
\* the removal of the temporary directory if one was allocated, as the last
\* command of the run; a run that has failed is at Cleanup or has terminated.
C10_CleanupOnceAndLast ==
  /\ run.cleanups = (IF run.pc = "done" THEN 1 ELSE 0)
  /\ run.result = "failure" => run.pc \in {"cleanup", "done"}
  /\ run.pc \in {"cleanup", "done"} => run.result \in {"success", "failure"}
  /\ (run.pc = "done" /\ run.temp_dir # None) =>
       /\ run.trace[Len(run.trace)].cmd = "rm_tmp"
       /\ Cardinality({i \in 1..Len(run.trace) : run.trace[i].cmd = "rm_tmp"}) = 1
  /\ (run.pc = "done" /\ run.temp_dir = None) => "rm_tmp" \notin Issued(run)

C10_Witness ==
  /\ run.pc = "done"
  /\ run.result = "failure"
  /\ run.failed_at = "install"
  /\ run.temp_dir # None
  /\ run.cleanups = 1

\* C11 (as stated): after Cleanup has run twice in a row, the run and the
\* target host are in the state the first Cleanup left them in, whatever the
\* outcomes of the two removal commands.
C11_SecondCleanupChangesNothing ==
  twin.pc = "done" =>
    [run EXCEPT !.cleanups = twin.cleanups, !.trace = twin.trace] = twin

\* C11 (amended): a second Cleanup raises no error and changes no field of
\* the run; it issues the removal again if a temporary directory was
\* allocated and nothing otherwise; on the target it changes at most the
\* temporary directory, which is gone after the second Cleanup whenever it
\* was gone after the first (the second removal is then a no-op, whatever
\* its outcome) and is still there only if both removals failed.
C11_SecondCleanupIsSafe ==
  twin.pc = "done" =>
    /\ run.cleanups = 2
    /\ [run EXCEPT !.cleanups = twin.cleanups, !.trace = twin.trace,
                   !.tmp = twin.tmp] = twin
    /\ run.tmp => twin.tmp
    /\ run.trace = IF run.temp_dir = None THEN twin.trace
                   ELSE Append(twin.trace, [cmd |-> "rm_tmp", arg |-> FollowerHost,
                                            proc |-> run.proc,
                                            name |-> artifact(run, "rm_tmp")])

C11_Witness ==
  /\ twin.pc = "done"
  /\ run.cleanups = 2
  /\ run.temp_dir # None
  /\ twin.tmp /\ ~run.tmp

\* C12 (as stated): when the host recorded as leader at the end of
\* VerifyLeaderHealth has not answered a health probe in that phase (the
\* leader's probe failed and no candidate took over), the phase has not
\* succeeded: the run has failed at VerifyLeaderHealth.
C12_LeaderAnsweredProbe ==
  run.leader_unanswered =>
    /\ run.pc \in {"cleanup", "done"}
    /\ run.failed_at = "leader_health"

C14_StartTimeoutIsHard ==
  (~run.dry_run /\ run.start_window_expired) =>
    /\ run.pc \in {"cleanup", "done"}
    /\ run.result = "failure"
    /\ run.failed_at = "start"
    /\ \A i \in 1..Len(run.phases) :
         run.phases[i] \notin {"verify", "logs_after", "restart", "handoff"}

C14_Witness ==
  /\ run.pc = "done"
  /\ ~run.dry_run
  /\ run.start_window_expired
  /\ ~run.proc
  /\ run.db = "ckpt"
  /\ run.phases[Len(run.phases) - 1] = "start"

\* C15 (as stated): when the roles output fetched after the restart could not
\* be parsed or does not list the target as FOLLOWER, VerifyConvergence
\* fails; so a run reports success only if that output lists the target as
\* FOLLOWER.
C15_SuccessOnlyIfListedFollower ==
  run.target_unlisted_after =>
    /\ run.pc \in {"cleanup", "done"}
    /\ run.failed_at = "verify"
    /\ run.result = "failure"

\* C16 (as stated): with the handoff test enabled, when the transfer to the
\* target was issued and the re-parse of the roles output failed or left
\* another host than the target as leader, TestLeadershipHandoff has not
\* succeeded: the run ends in failure at that phase.
C16_HandoffConfirmedByReparse ==
  (run.enable_leadership_transfer_test /\ run.handoff_unconfirmed) =>
    /\ run.pc \in {"cleanup", "done"}
    /\ run.failed_at = "handoff"
    /\ run.result = "failure"

\* C17 (as stated): the phases a run has entered are an initial part of the
\* stated order, in which SnapshotLogPositions after the restart comes
\* before VerifyConvergence.
C17_StatedOrder ==
  IsPrefix(Entered(run),
           << "discover", "ssh", "sudo", "prompt", "roles", "config", "security",
              "leader_health", "logs_before", "stop", "endpoint", "download",
              "extract", "install", "ratis_backup", "start", "logs_after", "verify",
              "handoff" >>)

\* C17 (amended): the phases a run has entered are an initial part of the
\* order of run_bootstrap, each entered at most once: the stated order with
\* VerifyConvergence before SnapshotLogPositions after the restart; the
\* handoff test is entered only if enabled; a run has terminated only after
\* Cleanup, which is entered last and once.
C17_CodeOrder ==
  /\ IsPrefix(Entered(run), CodeOrder)
  /\ \A i \in 1..Len(run.phases) :
       run.phases[i] = "cleanup" => i = Len(run.phases) /\ run.pc = "done"
  /\ run.pc = "done" => run.phases # <<>> /\ run.phases[Len(run.phases)] = "cleanup"
  /\ "handoff" \in {run.phases[i] : i \in 1..Len(run.phases)} =>
       run.enable_leadership_transfer_test
  /\ run.pc \notin {"cleanup", "done"} =>
       /\ Len(Entered(run)) < Len(CodeOrder)
       /\ run.pc = CodeOrder[Len(Entered(run)) + 1]

C17_Witness ==
  /\ run.pc = "done"
  /\ run.result = "success"
  /\ run.phases = CodeOrder \o <<"cleanup">>

\* C18: when the tool is invoked without --dry-run, without --yes and without
\* --list-clusters, the orchestrator is never constructed, so no phase is
\* entered and no command is issued; main itself makes no management-API
\* request; and when main has exited, it has exited with code 1.
C18_NoYesNoRun ==
  (~twin.dry_run /\ ~twin.yes /\ ~twin.list_clusters) =>
    /\ run = NotConstructed
    /\ twin.requests = <<>>
    /\ twin.pc \in {"main", "exit"}
    /\ twin.pc = "exit" => twin.exit_code = 1

C18_Witness ==
  /\ twin.pc = "exit"
  /\ ~twin.dry_run /\ ~twin.yes /\ ~twin.list_clusters
  /\ twin.cluster /\ twin.follower_host
  /\ twin.exit_code = 1

\* C19 (as stated): the roles outputs that describe one cluster in the three
\* formats are parsed to the same leader and the same set of followers.
C19_FormatIndependent ==
  \A f, g \in DOMAIN run.by_format : run.by_format[f] = run.by_format[g]

\* C20 (as stated): a roles output is parsed to a leader only if its leader
\* lines name exactly one host; with no leader line, or with leader lines
\* that name different hosts, the parsed leader is unknown.
C20_ConflictingLeadersUnknown ==
  \A f \in DOMAIN run.by_format :
    run.by_format[f].leader # None => Cardinality(LeaderLines(twin.lines)) = 1

\* C21 (as stated): when the call has returned, the safety valve of every
\* group of the role type that has one holds a <property> entry for every
\* property name asked for.
C21_EveryPropertyPresent ==
  run.pc = "returned" =>
    \A i \in 1..Len(run.groups) :
      (run.groups[i].roleType = "OZONE_MANAGER" /\ run.groups[i].valve) =>
        \A j \in 1..Len(run.properties) :
          HasEntry(run.groups[i].value, run.properties[j].name)

\* C22: a second call with the same properties, made when the first has
\* returned, returns, performs no update (every group with a safety valve is
\* skipped) and leaves the value of every safety valve as the first call
\* left it.
C22_SecondCallUpdatesNothing ==
  twin.pc = "returned" =>
    /\ run.pc = "returned"
    /\ run.updated = 0
    /\ run.groups = twin.groups
    /\ run.skipped = twin.updated + twin.skipped

C22_Witness ==
  /\ twin.pc = "returned"
  /\ twin.updated = 2
  /\ Len(run.properties) = 2
  /\ run.skipped = 2

\* C23 (as stated): once a re-fetch of the role state has succeeded, the
\* recorded leader is the leader parsed from the output of the last such
\* re-fetch, None when that output has no leader line.
C23_LeaderIsRefetched ==
  run.refetched_leader # "unfetched" => run.leader_host = run.refetched_leader

\* C24 (as stated): om_role_was_stopped is true only if the target's process
\* was running before the run's stop command and is absent after it.
C24_FlagMeansStoppedByRun ==
  run.om_role_was_stopped => run.proc_before /\ ~run.proc

\* C25: the stop loop makes at most 24 probes and the start loop at most 18,
\* whatever the probes return: a loop that goes on has made fewer; a loop
\* returns at the first probe that shows the awaited condition (pgrep
\* non-zero when stopping, zero when starting), and returns failure only
\* after its last probe.
C25_PollingIsBounded ==
  LET most == IF run.pc = "stop" THEN 24 ELSE 18
  IN  /\ most = (IF run.pc = "stop" THEN StopProbes ELSE StartProbes)
      /\ twin.made <= most
      /\ run.ret = "Poll" => twin.made < most /\ ~twin.awaited
      /\ twin.awaited <=> run.ret = "True"
      /\ run.ret = "False" => twin.made = most

C25_Witness ==
  /\ run.pc = "stop"
  /\ run.ret = "True"
  /\ twin.made = 24
  /\ twin.awaited

\* the commands of backup_and_replace_database in the order of the code
InstallOrder == <<"mkdir_backup", "cp_db", "mv_db_aside", "mv_new_db", "chown_db">>

\* the commands of backup_and_replace_database the run s has issued, in the
\* order of their issue
InstallIssued(s) ==
  LET mine == SelectSeq(s.trace, LAMBDA e :
                        e.cmd \in {InstallOrder[i] : i \in 1..Len(InstallOrder)})
  IN  [i \in 1..Len(mine) |-> mine[i].cmd]

\* C26: in a real run the commands of the install are issued in the order
\* backup copy, rename of the live database aside, rename of the extracted
\* checkpoint into the live path, change of owner, each once and none without
\* the one before it; the live database is renamed aside only when the backup
\* copy exists, and the checkpoint is moved into place only when the live
\* database has been renamed aside.
C26_InstallInOrder ==
  ~run.dry_run =>
    /\ IsPrefix(InstallIssued(run), InstallOrder)
    /\ "mv_db_aside" \in Issued(run) => run.db_backup
    /\ "mv_new_db" \in Issued(run) => run.db_backup /\ run.db_aside
    /\ "chown_db" \in Issued(run) => run.db = "ckpt"

C26_Witness ==
  /\ ~run.dry_run
  /\ InstallIssued(run) = InstallOrder
  /\ run.pc = "done"

\* the commands issued by the steps after backup_and_replace_database: the
\* directory, copy and move of the consensus-log backup (under
\* {backup_dir}/ratisLogs_{epoch} and the `current` directory of ratis_dir),
\* the start of the role, the handoff and the removal of temp_dir; none names
\* {om_db_dir}/om.db, {om_db_dir}/om.db.backup.{epoch} or
\* {backup_dir}/om.db.backup.{epoch}
LaterCommands ==
  {"mkdir_ratis_backup", "cp_ratis", "mv_ratis", "cm_start", "transfer", "rm_tmp"}

\* backup_and_replace_database has returned True in the run s: the next step
\* has been entered
InstallSucceeded(s) == \E i \in 1..Len(s.phases) : s.phases[i] = "ratis_backup"

\* what the run s has issued after the last command of an install that
\* succeeded: the change of owner, in a dry run the creation of backup_dir
AfterInstall(s) ==
  LET last == IF s.dry_run THEN "mkdir_backup" ELSE "chown_db"
      at == CHOOSE i \in 1..Len(s.trace) :
              /\ s.trace[i].cmd = last
              /\ \A j \in 1..(i - 1) : s.trace[j].cmd # last
  IN  SubSeq(s.trace, at + 1, Len(s.trace))

\* C27: once backup_and_replace_database has succeeded, every command issued
\* later in the run, by a step that succeeds or fails and by the cleanup, is
\* one of the consensus-log backup, the role start, the handoff or the removal
\* of the temporary directory, and the installed database, the original
\* renamed aside and the backup copy stay as the install left them.
C27_InstallIsNotUndone ==
  InstallSucceeded(run) =>
    /\ \A i \in 1..Len(AfterInstall(run)) : AfterInstall(run)[i].cmd \in LaterCommands
    /\ run.db = (IF run.dry_run THEN "orig" ELSE "ckpt")
    /\ run.db_aside = ~run.dry_run
    /\ run.db_backup = ~run.dry_run

C27_Witness ==
  /\ InstallSucceeded(run)
  /\ ~run.dry_run
  /\ run.pc = "done"
  /\ run.result = "failure"
  /\ run.failed_at = "start"
  /\ "rm_tmp" \in Issued(run)
  /\ "mv_ratis" \in Issued(run)

\* C28: when get_om_configuration gets as far as the selection, it selects
\* HTTPS with the HTTPS port exactly when ssl_enabled is true (in any case of
\* letters) and an HTTPS port was resolved; otherwise HTTP with the resolved
\* HTTP port if there is one, otherwise HTTP with port 9874.  An HTTPS port
\* without ssl_enabled never selects HTTPS, and what the service sets for
\* ssl_enabled and the ports is never selected.
C28_ProtocolByRule ==
  run.pc = "resolved" =>
    IF NoItems(run.role_cfg) /\ \A i \in 1..Len(run.groups) :
                                  run.groups[i].roleType # "OZONE_MANAGER"
    THEN run.ret = "False" /\ run.om_protocol = None /\ run.om_port = None
    ELSE
      /\ <<run.om_protocol, run.om_port>> =
           IF run.ssl_enabled /\ run.om_https_port # None
           THEN <<"https", run.om_https_port>>
           ELSE IF run.om_http_port # None THEN <<"http", run.om_http_port>>
           ELSE <<"http", "9874">>
      /\ ~NoItems(run.role_cfg) =>
           /\ run.ssl_enabled <=> run.role_cfg["ssl_enabled"] \in {"true", "TRUE"}
           /\ run.om_https_port = None <=>
                run.role_cfg["ozone.om.https-port"] \in {Absent, ""}
           /\ run.om_http_port = None <=>
                run.role_cfg["ozone.om.http-port"] \in {Absent, ""}
      /\ ~run.ssl_enabled => run.om_protocol = "http"
      /\ run.om_port # "service"

C28_Witness ==
  /\ run.pc = "resolved"
  /\ run.role_cfg["ozone.om.https-port"] = "role"
  /\ run.role_cfg["ssl_enabled"] = "false"
  /\ run.svc_cfg["ssl_enabled"] = "true"
  /\ run.svc_cfg["ozone.om.http-port"] = "service"
  /\ run.om_https_port = "role"
  /\ run.om_protocol = "http"
  /\ run.om_port = "9874"

\* C29: a data directory or log directory found in the role's own
\* configuration, or when that is empty in the OZONE_MANAGER role config
\* group whose name ends in -BASE, without one in the first OZONE_MANAGER
\* group, is the one resolved; the value of the service is resolved only when
\* none was found there; the ports are those found at the role or group level
\* or none, never those of the service; the call succeeds exactly when a data
\* directory was resolved.
C29_RoleLevelFirst ==
  LET om == {i \in 1..Len(run.groups) : run.groups[i].roleType = "OZONE_MANAGER"}
      bases == {i \in om : EndsWithBase(run.groups[i].name)}
      pick == IF bases # {} THEN bases ELSE {i \in om : \A j \in om : i <= j}
      found(n) == IF ~NoItems(run.role_cfg) THEN run.role_cfg[n]
                  ELSE run.groups[CHOOSE i \in pick : TRUE].items[n]
      dir(n) == IF Truthy(found(n)) THEN found(n)
                ELSE IF Truthy(run.svc_cfg[n]) THEN "service" ELSE None
      port(n) == IF Truthy(found(n)) THEN found(n) ELSE None
  IN  (run.pc = "resolved" /\ (~NoItems(run.role_cfg) \/ om # {})) =>
        /\ run.om_db_dir = dir("ozone.om.db.dirs")
        /\ run.ratis_dir = dir("ozone.om.ratis.storage.dir")
        /\ run.om_http_port = port("ozone.om.http-port")
        /\ run.om_https_port = port("ozone.om.https-port")
        /\ run.ret = "True" <=> run.om_db_dir # None

C29_Witness ==
  /\ run.pc = "resolved"
  /\ NoItems(run.role_cfg)
  /\ Len(run.groups) = 2
  /\ run.groups[1].name = "OZONE_MANAGER-1"
  /\ run.groups[1].items["ozone.om.db.dirs"] = "OZONE_MANAGER-1"
  /\ run.groups[2].name = "OZONE_MANAGER-BASE"
  /\ run.svc_cfg["ozone.om.db.dirs"] = "service"
  /\ run.svc_cfg["ozone.om.https-port"] = "service"
  /\ run.om_db_dir = "OZONE_MANAGER-BASE"
  /\ run.ratis_dir = "service"
  /\ run.om_https_port = None

\* the run s has left the phase p
Left(s, p) == s.pc # p /\ \E i \in 1..Len(s.phases) : s.phases[i] = p

C31_PrefixOnlyForCli ==
  (run.pc = "returned" /\ run.self.ozone_security_enabled) =>
    /\ run.kinit # "none" <=> run.command.program \in CliPrograms
    /\ run.command.program \in PlainPrograms => run.kinit = "none"

\* C33: every call of the remote executor returns, after at most 300
\* seconds, and raises nothing; when ssh has not ended by then, or
\* subprocess.run raised, the result has a non-zero return code, an empty
\* stdout and the reason in stderr; the fields of the orchestrator are as
\* they were before the call.
C33_ExecutorAlwaysReturns ==
  run.pc = "returned" =>
    /\ ~run.raised
    /\ run.waited <= 300
    /\ (run.transport.outcome # "ran" \/ run.transport.seconds > 300) =>
         /\ run.returncode # 0
         /\ run.stdout = ""
         /\ run.stderr # ""
    /\ (run.transport.outcome = "ran" /\ run.transport.seconds <= 300) =>
         run.returncode = run.transport.returncode
    /\ run.self = twin

C33_Witness ==
  /\ run.pc = "returned"
  /\ run.transport.outcome = "ran"
  /\ run.transport.seconds = 86400
  /\ run.waited = 300
  /\ run.returncode = -1
  /\ run.stderr = "Command timed out"

\* C32 (as stated): check_security_configuration has been entered before
\* any command of the metadata-service CLI is handed to the remote executor,
\* so that in a run that finds service authentication required no such
\* command has gone out without the credential step.
C32_SecurityCheckedBeforeCli ==
  /\ run.cli_unprefixed => \E i \in 1..Len(run.phases) : run.phases[i] = "security"
  /\ run.ozone_security_enabled => ~run.cli_unprefixed

\* C34: the run identifier and the backup root are those of the construction
\* throughout the run, the backup root being the one derived from the
\* identifier; the data directory and the log directory are those
\* get_om_configuration resolved; and every name the run creates (temporary
\* directory, extract directory, backup copy, renamed-aside database,
\* ratisLogs directory) carries the run identifier.
C34_OneIdentifierPerRun ==
  /\ run.epoch_time = twin.epoch_time
  /\ run.backup_dir = twin.backup_dir
  /\ run.backup_dir = om_bootstrap_dir(run.epoch_time)
  /\ <<run.om_db_dir, run.ratis_dir>> = run.resolved_dirs
  /\ \A i \in 1..Len(run.trace) :
       run.trace[i].name.under # "" => run.trace[i].name.epoch = twin.epoch_time

C34_Witness ==
  /\ run.pc = "done"
  /\ run.result = "success"
  /\ run.epoch_time = 1700000060
  /\ run.om_db_dir # None
  /\ {run.trace[i].name.under : i \in 1..Len(run.trace)} =
       { "", "/tmp/om_bootstrap_", "{om_db_dir}.tmp_", "{backup_dir}/om.db.backup.",
         "{om_db_dir}/om.db.backup.", "{backup_dir}/ratisLogs_" }

\* C35 (as stated): when stop_follower is about to be called, the recorded
\* leader is a host other than the target.
C35_LeaderIsNotTarget ==
  run.pc = "stop" => run.leader_host # FollowerHost

\* C36: a run that has come past step 7.1 has om_role_was_stopped false, so
\* the start_follower of step 7.2 is never entered; the start command and the
\* stop command of the role are each issued at most once in a run.
C36_NoSecondStart ==
  /\ run.pc # "restart"
  /\ \A i \in 1..Len(run.phases) : run.phases[i] # "restart"
  /\ Left(run, "logs_after") => ~run.om_role_was_stopped
  /\ Cardinality({i \in 1..Len(run.trace) : run.trace[i].cmd = "cm_start"}) <= 1
  /\ Cardinality({i \in 1..Len(run.trace) : run.trace[i].cmd = "cm_stop"}) <= 1

C36_Witness ==
  /\ Left(run, "logs_after")
  /\ ~run.dry_run
  /\ run.proc_before
  /\ run.proc
  /\ Cardinality({i \in 1..Len(run.trace) : run.trace[i].cmd = "cm_start"}) = 1
  /\ Cardinality({i \in 1..Len(run.trace) : run.trace[i].cmd = "cm_stop"}) = 1
  /\ run.pc = "done"
  /\ run.result = "success"

\* C37: every stop and every start command of the management API is for a
\* role of the service whose host is the target host, also in a run whose
\* leader has been changed by the failover of step 2.0.
C37_OnlyTargetRoleCommanded ==
  \A i \in 1..Len(run.trace) :
    run.trace[i].cmd \in RoleCommands =>
      \E j \in 1..Len(run.om_roles) :
        /\ run.om_roles[j].name = run.trace[i].arg
        /\ run.om_roles[j].host = FollowerHost

C37_Witness ==
  /\ ~run.enable_leadership_transfer_test
  /\ \E i \in 1..Len(run.trace) :
       run.trace[i].cmd = "transfer" /\ run.trace[i].arg = "om3"
  /\ \E i \in 1..Len(run.trace) :
       run.trace[i].cmd = "cm_stop" /\ run.trace[i].arg = "OM-2"
  /\ \E i \in 1..Len(run.trace) :
       run.trace[i].cmd = "cm_start" /\ run.trace[i].arg = "OM-2"

\* C38 (as stated): the "after" listing compares the newest log name of a
\* host with the name recorded for that same host by the "before" listing,
\* also when the recorded leader has changed in between.
C38_ComparedWithSameHost ==
  \A p \in run.compared : p[1] = p[2]

\* C39: the cleanup step issues one command, the removal of temp_dir on the
\* target, when a temporary directory was allocated and none otherwise; it
\* leaves every field of the orchestrator as it was, and on the target
\* changes nothing but the temporary directory: the extract directory, the
\* backups, the live database and the consensus logs stay as they were.
C39_CleanupFrame ==
  [][ (run.pc = "cleanup" /\ run'.pc = "done") =>
        /\ SubSeq(run'.trace, 1, Len(run.trace)) = run.trace
        /\ Len(run'.trace) = Len(run.trace) + (IF run.temp_dir # None THEN 1 ELSE 0)
        /\ run.temp_dir # None =>
             /\ run'.trace[Len(run'.trace)].cmd = "rm_tmp"
             /\ run'.trace[Len(run'.trace)].arg = FollowerHost
        /\ \A f \in DOMAIN run \ {"pc", "trace", "tmp", "cleanups", "phases", "quirks"} :
             run'[f] = run[f] ]_vars

C39_Witness ==
  /\ run.pc = "done"
  /\ run.failed_at = "extract"
  /\ run.extract = "partial"
  /\ run.temp_dir # None
  /\ ~run.tmp
  /\ Cardinality({i \in 1..Len(run.trace) : run.trace[i].cmd = "rm_tmp"}) = 1

====
